---- MODULE Spec2Model ----
(***************************************************************************)
(* A model of the emotion-conversation backend: the extraction service     *)
(* (emotionAIService), the conversation routes (start / respond /          *)
(* complete), the analytics aggregator (conversationAnalyticsService) and  *)
(* the dashboard read routes.                                              *)
(*                                                                         *)
(* Numbers.  intensity and the 1..10 scores are integers.  confidence and  *)
(* sentiment are held in tenths (0.5 is 5, -1 is -10), so that their       *)
(* ranges [0,1] and [-1,1] are 0..10 and -10..10.                          *)
(***************************************************************************)
EXTENDS Integers, Sequences, FiniteSets, TLC

VARIABLES
  conversations,     \* the EmotionConversation collection, in creation order
  emotionAnalytics,  \* the EmotionAnalytics collection, in creation order
  convAnalytics,     \* the ConversationAnalytics collection, in creation order
  reqs,              \* the respond and complete handlers in flight, by slot
  reply,             \* the response sent last
  lastRead,          \* what the last read route fetched and returned
  llmIn,             \* the function under test: its name and its input (for the
                     \* extraction service, its external call's outcome)
  llmOut,            \* ... and what the function returned
  userCollection,    \* the User collection, in creation order
  surveyCollection,  \* the Survey collection, in creation order
  responseCollection \* the SurveyResponse collection, in creation order

surveyStores == <<surveyCollection, responseCollection>>

vars ==
  <<conversations, emotionAnalytics, convAnalytics, reqs, reply, lastRead, llmIn, llmOut,
    userCollection, surveyCollection, responseCollection>>

-----------------------------------------------------------------------------
(* Bounds of the model *)

MaxRaw == 11          \* the external call's numbers reach MaxRaw and -MaxRaw
MaxConvs == 1         \* conversations started
MaxReqs == 2          \* respond and complete handlers in flight at a time
MaxQuestions == 2     \* question entries of one conversation
MaxAnalytics == 2     \* ConversationAnalytics records created
MaxTurns == 2         \* user turns of a conversation whose blocks are computed
MaxHistory == 4       \* conversations in the store the historical analysis reads
MaxUserRecords == 4   \* User records stored
MaxRecent == 6        \* conversations in the list whose trend direction is computed
MaxRecs == 3          \* recommendations in a list handed to initializeActionTracking
MaxResponses == 3     \* SurveyResponse records stored

-----------------------------------------------------------------------------
(* JavaScript values, as far as the services read them.  A value is a       *)
(* record [k, v]: k is "undef" (a missing field), "null", "num" (v is the   *)
(* number), "str" (a non-numeric, non-empty string) or "nan".               *)

Undef == [k |-> "undef", v |-> 0]
Null == [k |-> "null", v |-> 0]
Str == [k |-> "str", v |-> 0]
NaN == [k |-> "nan", v |-> 0]
Num(n) == [k |-> "num", v |-> n]

\* x is truthy: the left operand of || is kept
Truthy(x) == (x.k = "num" /\ x.v # 0) \/ x.k = "str"

\* x || d
OrElse(x, d) == IF Truthy(x) THEN x ELSE d

\* ToNumber, as Math.min and Math.max apply it to an argument
ToNumber(x) ==
  CASE x.k = "num" -> x
    [] x.k = "null" -> Num(0)
    [] OTHER -> NaN

MathMin(a, b) ==
  LET x == ToNumber(a)
      y == ToNumber(b)
  IN IF x.k = "nan" \/ y.k = "nan" THEN NaN
     ELSE IF x.v <= y.v THEN x ELSE y

MathMax(a, b) ==
  LET x == ToNumber(a)
      y == ToNumber(b)
  IN IF x.k = "nan" \/ y.k = "nan" THEN NaN
     ELSE IF x.v >= y.v THEN x ELSE y

\* x is a number within lo..hi
InRange(x, lo, hi) == x.k = "num" /\ lo <= x.v /\ x.v <= hi

-----------------------------------------------------------------------------
(* The extraction service (emotionAIService).  The outcome of the external  *)
(* call is a record: k is "error" (the call threw), "unparsable"            *)
(* (JSON.parse threw), "null" (the text parsed to null) or "object" (it     *)
(* parsed to an object with the fields below, each possibly missing).  A    *)
(* missing string field is "" and a missing list field is <<>>: x || d      *)
(* gives the same for the missing and for the empty value.                  *)

\* Math.max(lo, Math.min(hi, x || d))
ClampOr(lo, hi, x, d) == MathMax(Num(lo), MathMin(Num(hi), OrElse(x, d)))

\* the catch block of analyzeEmotion
analyzeEmotionDefault ==
  [primaryEmotion |-> "neutral", intensity |-> Num(5), confidence |-> Num(3),
   triggers |-> <<>>, needs |-> <<>>, sentiment |-> Num(0)]

\* A mutant of analyzeEmotion: the || defaults are missing
analyzeEmotionNoDefaults(o) ==
  IF o.k # "object" THEN analyzeEmotionDefault
  ELSE [primaryEmotion |-> o.primaryEmotion,
        intensity |-> MathMax(Num(1), MathMin(Num(10), o.intensity)),
        confidence |-> MathMax(Num(0), MathMin(Num(10), o.confidence)),
        triggers |-> o.triggers,
        needs |-> o.needs,
        sentiment |-> MathMax(Num(-10), MathMin(Num(10), o.sentiment))]

analyzeEmotion(o) ==
  IF o.k # "object" THEN analyzeEmotionDefault
  ELSE [primaryEmotion |-> IF o.primaryEmotion = "" THEN "neutral" ELSE o.primaryEmotion,
        intensity |-> ClampOr(1, 10, o.intensity, Num(5)),
        confidence |-> ClampOr(0, 10, o.confidence, Num(5)),
        triggers |-> o.triggers,
        needs |-> o.needs,
        sentiment |-> ClampOr(-10, 10, o.sentiment, Num(0))]

\* the catch block of analyzeOverallEmotion
analyzeOverallEmotionDefault ==
  [dominantEmotion |-> "neutral", averageIntensity |-> Num(5),
   emotionalState |-> "balanced", wellBeingScore |-> Num(5),
   stressLevel |-> Num(5), energyLevel |-> Num(5), satisfaction |-> Num(5)]

analyzeOverallEmotion(o) ==
  IF o.k # "object" THEN analyzeOverallEmotionDefault
  ELSE [dominantEmotion |-> IF o.dominantEmotion = "" THEN "neutral" ELSE o.dominantEmotion,
        averageIntensity |-> ClampOr(1, 10, o.averageIntensity, Num(5)),
        emotionalState |-> IF o.emotionalState = "" THEN "balanced" ELSE o.emotionalState,
        wellBeingScore |-> ClampOr(1, 10, o.wellBeingScore, Num(5)),
        stressLevel |-> ClampOr(1, 10, o.stressLevel, Num(5)),
        energyLevel |-> ClampOr(1, 10, o.energyLevel, Num(5)),
        satisfaction |-> ClampOr(1, 10, o.satisfaction, Num(5))]

\* the catch block of generateEmotionalInsights
generateEmotionalInsightsDefault ==
  [emotionalPatterns |-> <<>>, concerns |-> <<>>, positiveFactors |-> <<>>,
   recommendations |-> <<>>, keyTopics |-> <<>>]

generateEmotionalInsights(o) ==
  IF o.k # "object" THEN generateEmotionalInsightsDefault
  ELSE [emotionalPatterns |-> o.emotionalPatterns, concerns |-> o.concerns,
        positiveFactors |-> o.positiveFactors, recommendations |-> o.recommendations,
        keyTopics |-> o.keyTopics]

-----------------------------------------------------------------------------
(* The tenants and the users of the store.  authenticateToken loads the     *)
(* acting user by id within the resolved tenant.                            *)

Tenants == {"tA", "tB"}
Users == {"u1", "u2"}
UserTenant == [u \in Users |-> IF u = "u1" THEN "tA" ELSE "tB"]
UserRole == [u \in Users |-> IF u = "u1" THEN "admin" ELSE "user"]

\* authenticateToken lets the request of user u through under tenant t
Authenticated(u, t) == UserTenant[u] = t

-----------------------------------------------------------------------------
(* The EmotionConversation schema *)

\* emotionAnalysis of a question entry: required fields and min/max validators
ValidEmotionAnalysis(ea) ==
  /\ ea.primaryEmotion # ""
  /\ InRange(ea.intensity, 1, 10)
  /\ InRange(ea.confidence, 0, 10)
  /\ (ea.sentiment.k = "undef" \/ InRange(ea.sentiment, -10, 10))

ValidScore(x) == x.k = "undef" \/ InRange(x, 1, 10)

\* overallEmotion: min/max validators, no field required
ValidOverallEmotion(oe) ==
  /\ ValidScore(oe.averageIntensity)
  /\ ValidScore(oe.wellBeingScore)
  /\ ValidScore(oe.stressLevel)
  /\ ValidScore(oe.energyLevel)
  /\ ValidScore(oe.satisfaction)

\* overallEmotion of a new document: no field set
NoOverallEmotion ==
  [dominantEmotion |-> "", averageIntensity |-> Undef, emotionalState |-> "",
   wellBeingScore |-> Undef,
   stressLevel |-> Undef, energyLevel |-> Undef, satisfaction |-> Undef]

\* new EmotionConversation({... questions: [], status: 'in_progress'}); the
\* session ids are handed out in order, and createdAt is the order of creation
NewConversation(t, u, sid, type) ==
  [tenantId |-> t, userId |-> u, sessionId |-> sid, conversationType |-> type,
   createdAt |-> sid, questions |-> <<>>, overallEmotion |-> NoOverallEmotion,
   insights |-> generateEmotionalInsightsDefault, status |-> "in_progress"]

\* EmotionAnalytics emotionalMetrics: every field required, within 1..10
ValidEmotionalMetrics(m) ==
  /\ InRange(m.moodScore, 1, 10) /\ InRange(m.stressLevel, 1, 10)
  /\ InRange(m.energyLevel, 1, 10) /\ InRange(m.satisfaction, 1, 10)
  /\ InRange(m.engagement, 1, 10) /\ InRange(m.wellBeing, 1, 10)

-----------------------------------------------------------------------------
(* Outcomes of the external call, as the routes meet them *)

BlankEmotion ==
  [k |-> "object", primaryEmotion |-> "", intensity |-> Undef, confidence |-> Undef,
   triggers |-> <<>>, needs |-> <<>>, sentiment |-> Undef]

BlankOverall ==
  [k |-> "object", dominantEmotion |-> "", averageIntensity |-> Undef,
   emotionalState |-> "", wellBeingScore |-> Undef, stressLevel |-> Undef,
   energyLevel |-> Undef, satisfaction |-> Undef]

BlankInsights ==
  [k |-> "object", emotionalPatterns |-> <<>>, concerns |-> <<>>, positiveFactors |-> <<>>,
   recommendations |-> <<>>, keyTopics |-> <<>>]

\* the scoring call, as respond meets it: a failure, an object with every field
\* missing, a well-formed object, and an object whose intensity is no number
EmotionOutcomes ==
  { [BlankEmotion EXCEPT !.k = "error"],
    [BlankEmotion EXCEPT !.k = "unparsable"],
    [BlankEmotion EXCEPT !.primaryEmotion = "stress", !.intensity = Num(8),
                         !.sentiment = Num(-5), !.triggers = <<"deadline">>],
    [BlankEmotion EXCEPT !.primaryEmotion = "stress", !.intensity = Str] }

OverallOutcomes ==
  { [BlankOverall EXCEPT !.k = "error"],
    [BlankOverall EXCEPT !.k = "unparsable"],
    [BlankOverall EXCEPT !.dominantEmotion = "stress", !.wellBeingScore = Num(3),
                         !.stressLevel = Num(8)],
    [BlankOverall EXCEPT !.stressLevel = Str] }

InsightOutcomes ==
  { [BlankInsights EXCEPT !.k = "error"],
    [BlankInsights EXCEPT !.keyTopics = <<"work">>] }

\* a field the external call left out, or gave within its range
MissingOr(x, lo, hi) == x.k = "undef" \/ InRange(x, lo, hi)

\* the outcomes the service has to absorb with its defaults: the call threw, the
\* text did not parse, or it parsed with fields missing and the others in range
AbsorbedEmotion(o) ==
  \/ o.k \in {"error", "unparsable"}
  \/ /\ o.k = "object"
     /\ MissingOr(o.intensity, 1, 10)
     /\ MissingOr(o.confidence, 0, 10)
     /\ MissingOr(o.sentiment, -10, 10)

AbsorbedOverall(o) ==
  \/ o.k \in {"error", "unparsable"}
  \/ /\ o.k = "object"
     /\ MissingOr(o.averageIntensity, 1, 10)
     /\ MissingOr(o.wellBeingScore, 1, 10)
     /\ MissingOr(o.stressLevel, 1, 10)
     /\ MissingOr(o.energyLevel, 1, 10)
     /\ MissingOr(o.satisfaction, 1, 10)

-----------------------------------------------------------------------------
(* Requests.  A request slot holds one respond or complete handler between  *)
(* its awaits: its position and the document it loaded.  reply is the       *)
(* response sent last, with the outcome of the external call behind it.     *)

ReqIds == 1..MaxReqs

NoReq ==
  [pc |-> "idle", user |-> "", tenant |-> "", conv |-> 0, qlen |-> 0,
   overallEmotion |-> NoOverallEmotion, insights |-> generateEmotionalInsightsDefault,
   text |-> "", questionId |-> "", ext |-> "", absorbed |-> FALSE,
   email |-> "", role |-> "", survey |-> 0, counted |-> 0,
   settings |-> [maxResponses |-> Undef, requireAuthentication |-> FALSE]]

NoReply ==
  [route |-> "", status |-> 0, conv |-> 0, ext |-> "", absorbed |-> FALSE,
   storeFailed |-> FALSE]

\* requests take the slots in order
FreeSlot(r) == reqs[r].pc = "idle" /\ \A q \in ReqIds : q < r => reqs[q].pc # "idle"

\* A mutant of FindInProgress: the owner of the conversation is not looked at
FindInProgressAnyOwner(sid, t, u) ==
  { i \in 1..Len(conversations) :
      /\ conversations[i].sessionId = sid
      /\ conversations[i].status = "in_progress" }

\* EmotionConversation.findOne({sessionId, tenantId, userId, status: 'in_progress'})
FindInProgress(sid, t, u) ==
  { i \in 1..Len(conversations) :
      /\ conversations[i].sessionId = sid
      /\ conversations[i].tenantId = t
      /\ conversations[i].userId = u
      /\ conversations[i].status = "in_progress" }

\* res.status(st).json(...)
Reply(route, st, c, e, a) ==
  [route |-> route, status |-> st, conv |-> c, ext |-> e, absorbed |-> a,
   storeFailed |-> FALSE]

SessionIds == 1..MaxConvs
QuestionIds == {"q1"}
UserResponses == {"", "deadline meeting stress"}

-----------------------------------------------------------------------------
(* The conversation routes *)

\* POST /start: a new in_progress conversation with a fresh session id
Start(u, t) ==
  /\ Authenticated(u, t)
  /\ Len(conversations) < MaxConvs
  /\ conversations' = Append(conversations,
                             NewConversation(t, u, Len(conversations) + 1, "daily"))
  /\ reply' = Reply("start", 201, Len(conversations) + 1, "", FALSE)
  /\ UNCHANGED <<surveyStores, emotionAnalytics, convAnalytics, reqs, lastRead, llmIn,
                 userCollection, llmOut>>

\* POST /:sessionId/respond up to the await of analyzeEmotion: validation, findOne
RespondFind(r, u, t, sid, qid, text) ==
  /\ FreeSlot(r)
  /\ Authenticated(u, t)
  /\ LET found == FindInProgress(sid, t, u)
     IN IF text = ""
        THEN reply' = Reply("respond", 400, 0, "", FALSE) /\ UNCHANGED reqs
        ELSE IF found = {}
        THEN reply' = Reply("respond", 404, 0, "", FALSE) /\ UNCHANGED reqs
        ELSE LET c == CHOOSE i \in found : TRUE
             IN /\ Len(conversations[c].questions) < MaxQuestions
                /\ reqs' = [reqs EXCEPT ![r] =
                     [NoReq EXCEPT !.pc = "respond_await", !.user = u, !.tenant = t,
                                   !.conv = c, !.qlen = Len(conversations[c].questions),
                                   !.text = text, !.questionId = qid]]
                /\ UNCHANGED reply
  /\ UNCHANGED <<surveyStores, conversations, emotionAnalytics, convAnalytics, lastRead,
                 llmIn, userCollection, llmOut>>

\* the question entry respond pushes
QuestionEntry(qid, text, ea) ==
  [questionId |-> qid, userResponse |-> text, emotionAnalysis |-> ea]

\* A mutant of RespondSave: save writes the question list as the handler loaded
\* it, with the new entry
RespondSaveWholeList(r, o) ==
  /\ reqs[r].pc = "respond_await"
  /\ LET ea == analyzeEmotion(o)
         c == reqs[r].conv
     IN IF ValidEmotionAnalysis(ea)
        THEN /\ conversations' = [conversations EXCEPT ![c].questions =
                   Append(SubSeq(@, 1, reqs[r].qlen),
                          QuestionEntry(reqs[r].questionId, reqs[r].text, ea))]
             /\ reply' = Reply("respond", 200, c, o.k, AbsorbedEmotion(o))
        ELSE /\ reply' = Reply("respond", 500, c, o.k, AbsorbedEmotion(o))
             /\ UNCHANGED conversations
  /\ reqs' = [reqs EXCEPT ![r] = NoReq]
  /\ UNCHANGED <<surveyStores, emotionAnalytics, convAnalytics, lastRead, llmIn,
                 userCollection, llmOut>>

\* respond from the return of analyzeEmotion: push, save, reply.  save sends the
\* push of the new entry to the stored document with the loaded _id.
RespondSave(r, o) ==
  /\ reqs[r].pc = "respond_await"
  /\ LET ea == analyzeEmotion(o)
         c == reqs[r].conv
     IN IF ValidEmotionAnalysis(ea)
        THEN /\ conversations' = [conversations EXCEPT ![c].questions =
                   Append(@, QuestionEntry(reqs[r].questionId, reqs[r].text, ea))]
             /\ reply' = Reply("respond", 200, c, o.k, AbsorbedEmotion(o))
        ELSE /\ reply' = Reply("respond", 500, c, o.k, AbsorbedEmotion(o))
             /\ UNCHANGED conversations
  /\ reqs' = [reqs EXCEPT ![r] = NoReq]
  /\ UNCHANGED <<surveyStores, emotionAnalytics, convAnalytics, lastRead, llmIn,
                 userCollection, llmOut>>

\* POST /:sessionId/complete up to the await of analyzeOverallEmotion: findOne
CompleteFind(r, u, t, sid) ==
  /\ FreeSlot(r)
  /\ Authenticated(u, t)
  /\ LET found == FindInProgress(sid, t, u)
     IN IF found = {}
        THEN reply' = Reply("complete", 404, 0, "", FALSE) /\ UNCHANGED reqs
        ELSE LET c == CHOOSE i \in found : TRUE
             IN /\ reqs' = [reqs EXCEPT ![r] =
                     [NoReq EXCEPT !.pc = "complete_await", !.user = u, !.tenant = t,
                                   !.conv = c, !.qlen = Len(conversations[c].questions)]]
                /\ UNCHANGED reply
  /\ UNCHANGED <<surveyStores, conversations, emotionAnalytics, convAnalytics, lastRead,
                 llmIn, userCollection, llmOut>>

\* complete from the return of the two service calls to the save of the
\* conversation: overallEmotion, insights and status are set on the stored document
CompleteSave(r, oo, io) ==
  /\ reqs[r].pc = "complete_await"
  /\ LET overallEmotion == analyzeOverallEmotion(oo)
         insights == generateEmotionalInsights(io)
         c == reqs[r].conv
     IN IF ValidOverallEmotion(overallEmotion)
        THEN /\ conversations' = [conversations EXCEPT
                   ![c].overallEmotion = overallEmotion,
                   ![c].insights = insights,
                   ![c].status = "completed"]
             /\ reqs' = [reqs EXCEPT ![r].pc = "complete_saved",
                                     ![r].overallEmotion = overallEmotion,
                                     ![r].insights = insights, ![r].ext = oo.k,
                                     ![r].absorbed = AbsorbedOverall(oo)]
             /\ UNCHANGED reply
        ELSE /\ reply' = Reply("complete", 500, c, oo.k, AbsorbedOverall(oo))
             /\ reqs' = [reqs EXCEPT ![r] = NoReq]
             /\ UNCHANGED conversations
  /\ UNCHANGED <<surveyStores, emotionAnalytics, convAnalytics, lastRead, llmIn,
                 userCollection, llmOut>>

\* new EmotionAnalytics({...}) of the complete handler
NewEmotionAnalytics(t, u, overallEmotion, insights, c) ==
  [tenantId |-> t, userId |-> u,
   emotionalMetrics |->
     [moodScore |-> overallEmotion.wellBeingScore,
      stressLevel |-> overallEmotion.stressLevel,
      energyLevel |-> overallEmotion.energyLevel,
      satisfaction |-> overallEmotion.satisfaction,
      engagement |-> overallEmotion.averageIntensity,
      wellBeing |-> overallEmotion.wellBeingScore],
   emotionalInsights |->
     [recommendations |-> insights.recommendations, concerns |-> insights.concerns,
      positiveFactors |-> insights.positiveFactors],
   conversationId |-> c]

\* complete from the save of the conversation: the snapshot is saved, reply
CompleteSnapshot(r) ==
  /\ reqs[r].pc = "complete_saved"
  /\ LET a == NewEmotionAnalytics(reqs[r].tenant, reqs[r].user, reqs[r].overallEmotion,
                                  reqs[r].insights, reqs[r].conv)
     IN IF ValidEmotionalMetrics(a.emotionalMetrics)
        THEN /\ emotionAnalytics' = Append(emotionAnalytics, a)
             /\ reply' = Reply("complete", 200, reqs[r].conv, reqs[r].ext,
                                reqs[r].absorbed)
        ELSE /\ reply' = Reply("complete", 500, reqs[r].conv, reqs[r].ext,
                                reqs[r].absorbed)
             /\ UNCHANGED emotionAnalytics
  /\ reqs' = [reqs EXCEPT ![r] = NoReq]
  /\ UNCHANGED <<surveyStores, conversations, convAnalytics, lastRead, llmIn,
                 userCollection, llmOut>>

\* complete when await emotionAnalytics.save() rejects because the store does
\* not take the write: the catch block replies 500, and the conversation saved
\* before stays as saved
CompleteSnapshotFails(r) ==
  /\ reqs[r].pc = "complete_saved"
  /\ reply' = [Reply("complete", 500, reqs[r].conv, reqs[r].ext, reqs[r].absorbed)
                  EXCEPT !.storeFailed = TRUE]
  /\ reqs' = [reqs EXCEPT ![r] = NoReq]
  /\ UNCHANGED <<surveyStores,
                 conversations, emotionAnalytics, convAnalytics, lastRead, llmIn,
                 userCollection, llmOut>>

\* EmotionConversation.findOne({sessionId, tenantId, userId})
FindConversation(sid, t, u) ==
  { i \in 1..Len(conversations) :
      /\ conversations[i].sessionId = sid
      /\ conversations[i].tenantId = t
      /\ conversations[i].userId = u }

\* GET /:sessionId: the conversation of the caller, of any status
GetConversation(u, t, sid) ==
  /\ Authenticated(u, t)
  /\ LET found == FindConversation(sid, t, u)
     IN IF found = {}
        THEN reply' = Reply("get", 404, 0, "", FALSE)
        ELSE reply' = Reply("get", 200, CHOOSE i \in found : TRUE, "", FALSE)
  /\ UNCHANGED <<surveyStores,
                 conversations, emotionAnalytics, convAnalytics, reqs, lastRead,
                 llmIn, userCollection, llmOut>>

-----------------------------------------------------------------------------
(* The specification of the conversation routes *)

NoPatterns ==
  [dominantEmotions |-> <<>>, emotionalTrends |-> <<>>, emotionalTriggers |-> <<>>,
   emotionalNeeds |-> <<>>]

\* no data in the response
NoData == [k |-> "none"]

NoRead ==
  [route |-> "", tenant |-> "", userId |-> "", start |-> 0, status |-> 0,
   ids |-> {}, patterns |-> NoPatterns, data |-> NoData, granularity |-> "",
   again |-> FALSE]
NoOutcome == [k |-> ""]

Init ==
  /\ conversations = <<>>
  /\ emotionAnalytics = <<>>
  /\ convAnalytics = <<>>
  /\ reqs = [r \in ReqIds |-> NoReq]
  /\ reply = NoReply
  /\ lastRead = NoRead
  /\ llmIn = NoOutcome
  /\ llmOut = NoOutcome
  /\ userCollection = <<>>
  /\ surveyCollection = <<>>
  /\ responseCollection = <<>>

Next ==
  \/ \E u \in Users, t \in Tenants : Start(u, t)
  \/ \E r \in ReqIds, u \in Users, t \in Tenants, sid \in SessionIds,
        qid \in QuestionIds, text \in UserResponses :
          RespondFind(r, u, t, sid, qid, text)
  \/ \E r \in ReqIds, o \in EmotionOutcomes : RespondSave(r, o)
  \/ \E r \in ReqIds, u \in Users, t \in Tenants, sid \in SessionIds :
          CompleteFind(r, u, t, sid)
  \/ \E r \in ReqIds, oo \in OverallOutcomes, io \in InsightOutcomes :
          CompleteSave(r, oo, io)
  \/ \E r \in ReqIds : CompleteSnapshot(r)
  \/ \E r \in ReqIds : CompleteSnapshotFails(r)
  \/ \E u \in Users, t \in Tenants, sid \in SessionIds : GetConversation(u, t, sid)

Spec == Init /\ [][Next]_vars

-----------------------------------------------------------------------------
(* Frequency tables: the counts of the entries of a list, kept in the order *)
(* in which the keys are first seen (Object.entries), sorted by count       *)
(* descending with a stable sort, cut to the first five.                    *)

RECURSIVE FirstSeen(_)
FirstSeen(xs) ==
  IF xs = <<>> THEN <<>>
  ELSE LET init == FirstSeen(SubSeq(xs, 1, Len(xs) - 1))
           x == xs[Len(xs)]
       IN IF \E i \in 1..Len(init) : init[i] = x THEN init ELSE Append(init, x)

CountOf(xs, x) == Cardinality({ i \in 1..Len(xs) : xs[i] = x })

CountEntries(xs) ==
  LET keys == FirstSeen(xs)
  IN [i \in 1..Len(keys) |-> [key |-> keys[i], count |-> CountOf(xs, keys[i])]]

\* insert e behind every entry whose count is at least e's
RECURSIVE InsertByCount(_, _)
InsertByCount(sorted, e) ==
  IF sorted = <<>> THEN <<e>>
  ELSE IF sorted[1].count >= e.count
       THEN <<sorted[1]>> \o InsertByCount(Tail(sorted), e)
       ELSE <<e>> \o sorted

RECURSIVE SortByCount(_)
SortByCount(es) ==
  IF es = <<>> THEN <<>>
  ELSE InsertByCount(SortByCount(SubSeq(es, 1, Len(es) - 1)), es[Len(es)])

TopFive(es) == SubSeq(es, 1, IF Len(es) < 5 THEN Len(es) ELSE 5)

RECURSIVE Flatten(_)
Flatten(xss) == IF xss = <<>> THEN <<>> ELSE xss[1] \o Flatten(Tail(xss))

\* array.slice(from, to)
Slice(xs, from, to) == SubSeq(xs, from + 1, IF to < Len(xs) THEN to ELSE Len(xs))

Reverse(xs) == [i \in 1..Len(xs) |-> xs[Len(xs) + 1 - i]]

-----------------------------------------------------------------------------
(* The blocks analyzeConversation computes from the conversation.  A text   *)
(* is a list of words; content.includes(keyword) holds when the keyword is  *)
(* a substring of one of the words (no keyword holds a blank).              *)

\* the words of the user responses of the model
WordsOf(text) ==
  CASE text = "deadline meeting stress" -> <<"deadline", "meeting", "stress">>
    [] text = "work job office meeting" -> <<"work", "job", "office", "meeting">>
    [] text = "Stressed about the Project" -> <<"Stressed", "about", "the", "Project">>
    [] text = "fine" -> <<"fine">>
    [] OTHER -> <<>>

\* String.prototype.toLowerCase, on the words of the model
toLowerCase(word) ==
  CASE word = "Stressed" -> "stressed"
    [] word = "Project" -> "project"
    [] OTHER -> word

\* keyword is a substring of word, for the keywords and the lower-case words of
\* the model
IsSubstring(keyword, word) == keyword = word \/ <<keyword, word>> = <<"stress", "stressed">>

\* content.includes(keyword), content being the lower-cased words
Includes(content, keyword) == \E i \in 1..Len(content) : IsSubstring(keyword, content[i])

\* topicKeywords, in the order of its keys
topicKeywords ==
  << [topic |-> "work",
      keywords |-> <<"work", "job", "office", "meeting", "project", "deadline", "manager",
                     "colleague">>],
     [topic |-> "stress",
      keywords |-> <<"stress", "stressed", "overwhelmed", "pressure", "anxiety", "worried">>],
     [topic |-> "relationships",
      keywords |-> <<"relationship", "family", "friend", "partner", "team", "social">>],
     [topic |-> "health",
      keywords |-> <<"health", "sick", "tired", "energy", "sleep", "exercise", "wellness">>],
     [topic |-> "goals",
      keywords |-> <<"goal", "future", "career", "plan", "dream", "aspiration",
                     "ambition">>] >>

\* extractConversationData: an ai message and a user message per question
extractConversationData(conversation) ==
  [messages |-> Flatten([i \in 1..Len(conversation.questions) |->
                   << [type |-> "ai", content |-> ""],
                      [type |-> "user", content |-> conversation.questions[i].userResponse,
                       emotionAnalysis |-> conversation.questions[i].emotionAnalysis] >>]),
   conversationType |-> conversation.conversationType,
   overallEmotion |-> conversation.overallEmotion,
   insights |-> conversation.insights]

\* conversationData.messages.filter(msg => msg.type === 'user')
UserMessages(conversationData) ==
  SelectSeq(conversationData.messages, LAMBDA msg : msg.type = "user")

\* keywords.filter(keyword => content.includes(keyword)).length
Matches(msg, keywords) ==
  LET words == WordsOf(msg.content)
      content == [i \in 1..Len(words) |-> toLowerCase(words[i])]
  IN Cardinality({ i \in 1..Len(keywords) : Includes(content, keywords[i]) })

\* the topics a message adds to, in the order of the dictionary
TopicsHit(msg) ==
  LET hit == SelectSeq(topicKeywords, LAMBDA e : Matches(msg, e.keywords) > 0)
  IN [i \in 1..Len(hit) |-> hit[i].topic]

RECURSIVE SumMatches(_, _)
SumMatches(msgs, keywords) ==
  IF msgs = <<>> THEN 0
  ELSE Matches(msgs[1], keywords) + SumMatches(Tail(msgs), keywords)

KeywordsOf(topic) ==
  LET e == CHOOSE e \in { topicKeywords[i] : i \in 1..Len(topicKeywords) } : e.topic = topic
  IN e.keywords

\* the first analyzeTopics of the class (conversation form): per topic the
\* number of keyword matches over the user messages, the topics in the order in
\* which they are first hit, sorted by frequency descending
analyzeTopicsOfConversation(conversationData) ==
  LET msgs == UserMessages(conversationData)
      order == FirstSeen(Flatten([i \in 1..Len(msgs) |-> TopicsHit(msgs[i])]))
      counted == [i \in 1..Len(order) |->
                    [key |-> order[i], count |-> SumMatches(msgs, KeywordsOf(order[i]))]]
      sorted == SortByCount(counted)
  IN [i \in 1..Len(sorted) |->
        [topic |-> sorted[i].key, frequency |-> sorted[i].count, sentiment |-> 0]]

\* the topic entries of the items that have a topics list
TopicEntries(items) ==
  Flatten([i \in 1..Len(items) |->
             IF "topics" \in DOMAIN items[i] THEN items[i].topics ELSE <<>>])

RECURSIVE SumOf(_, _, _)
\* the sum of field f ("frequency" or "sentiment") over the entries of topic
SumOf(entries, topic, f) ==
  IF entries = <<>> THEN 0
  ELSE (IF entries[1].topic = topic
        THEN (IF f = "frequency" THEN entries[1].frequency ELSE entries[1].sentiment)
        ELSE 0) + SumOf(Tail(entries), topic, f)

\* the second analyzeTopics of the class (analytics form), the one a call of
\* this.analyzeTopics reaches: the frequencies and sentiments of the stored
\* topic entries summed per topic, the sentiment divided by the number of
\* items (kept as the pair of sum and divisor), sorted by frequency
\* descending, the first ten
analyzeTopics(items) ==
  LET entries == TopicEntries(items)
      order == FirstSeen([i \in 1..Len(entries) |-> entries[i].topic])
      counted == [i \in 1..Len(order) |->
                    [key |-> order[i], count |-> SumOf(entries, order[i], "frequency"),
                     sentiment |-> <<SumOf(entries, order[i], "sentiment"), Len(items)>>]]
      sorted == SortByCount(counted)
  IN [i \in 1..(IF Len(sorted) < 10 THEN Len(sorted) ELSE 10) |->
        [topic |-> sorted[i].key, frequency |-> sorted[i].count,
         sentiment |-> sorted[i].sentiment]]

\* x > n and x < n of JavaScript, n a number
JsGt(x, n) == LET y == ToNumber(x) IN y.k = "num" /\ y.v > n
JsLt(x, n) == LET y == ToNumber(x) IN y.k = "num" /\ y.v < n

\* generateRecommendations: the stress rule, the well-being rule, the topic rule
generateRecommendations(conversationData) ==
  LET topics == analyzeTopics(<<conversationData>>)
  IN (IF JsGt(conversationData.overallEmotion.stressLevel, 7)
      THEN <<[type |-> "emotional_support", priority |-> "high"]>> ELSE <<>>) \o
     (IF JsLt(conversationData.overallEmotion.wellBeingScore, 4)
      THEN <<[type |-> "personal_development", priority |-> "high"]>> ELSE <<>>) \o
     (IF \E i \in 1..Len(topics) : topics[i].topic = "work" /\ topics[i].frequency > 3
      THEN <<[type |-> "workplace_improvement", priority |-> "medium"]>> ELSE <<>>)

\* content.length of the user responses of the model
Length(text) ==
  CASE text = "deadline meeting stress" -> 23
    [] text = "work job office meeting" -> 23
    [] text = "Stressed about the Project" -> 26
    [] text = "fine" -> 4
    [] OTHER -> 0

\* a quotient num / den, kept as the pair of its terms
Ratio(num, den) == [k |-> "ratio", v |-> 0, num |-> num, den |-> den]

\* scores.reduce((a, b) => a + b, 0) over numbers
RECURSIVE SumNumbers(_)
SumNumbers(scores) == IF scores = <<>> THEN 0 ELSE scores[1].v + SumNumbers(Tail(scores))

\* userMessages.map(msg => msg.emotionAnalysis?.field || d).filter(x => x !== d),
\* then the mean of what is left, d when nothing is
MeanOfScored(scores, d) ==
  LET kept == SelectSeq(scores, LAMBDA x : x # Num(d))
  IN IF Len(kept) > 0 THEN Ratio(SumNumbers(kept), Len(kept)) ELSE Num(d)

\* A mutant of calculateMetrics: the default-valued responses are averaged too
calculateMetricsUnfiltered(conversationData) ==
  LET userMessages == UserMessages(conversationData)
      sentiments == [i \in 1..Len(userMessages) |->
                       OrElse(userMessages[i].emotionAnalysis.sentiment, Num(0))]
      intensities == [i \in 1..Len(userMessages) |->
                        OrElse(userMessages[i].emotionAnalysis.intensity, Num(5))]
  IN [totalMessages |-> Len(conversationData.messages),
      userMessages |-> Len(userMessages),
      aiMessages |-> Len(SelectSeq(conversationData.messages, LAMBDA msg : msg.type = "ai")),
      sentimentScore |-> IF Len(sentiments) > 0
                         THEN Ratio(SumNumbers(sentiments), Len(sentiments)) ELSE Num(0),
      emotionalIntensity |-> IF Len(intensities) > 0
                             THEN Ratio(SumNumbers(intensities), Len(intensities)) ELSE Num(5),
      wellBeingScore |-> OrElse(conversationData.overallEmotion.wellBeingScore, Num(5)),
      stressLevel |-> OrElse(conversationData.overallEmotion.stressLevel, Num(5)),
      energyLevel |-> OrElse(conversationData.overallEmotion.energyLevel, Num(5)),
      satisfactionLevel |-> OrElse(conversationData.overallEmotion.satisfaction, Num(5))]

\* calculateMetrics: the message counts, the mean sentiment and the mean
\* intensity of the user responses that carry a value other than the default,
\* and the four scores of overallEmotion, 5 where the score is missing
calculateMetrics(conversationData) ==
  LET userMessages == UserMessages(conversationData)
      sentiments == [i \in 1..Len(userMessages) |->
                       OrElse(userMessages[i].emotionAnalysis.sentiment, Num(0))]
      intensities == [i \in 1..Len(userMessages) |->
                        OrElse(userMessages[i].emotionAnalysis.intensity, Num(5))]
  IN [totalMessages |-> Len(conversationData.messages),
      userMessages |-> Len(userMessages),
      aiMessages |-> Len(SelectSeq(conversationData.messages, LAMBDA msg : msg.type = "ai")),
      sentimentScore |-> MeanOfScored(sentiments, 0),
      emotionalIntensity |-> MeanOfScored(intensities, 5),
      wellBeingScore |-> OrElse(conversationData.overallEmotion.wellBeingScore, Num(5)),
      stressLevel |-> OrElse(conversationData.overallEmotion.stressLevel, Num(5)),
      energyLevel |-> OrElse(conversationData.overallEmotion.energyLevel, Num(5)),
      satisfactionLevel |-> OrElse(conversationData.overallEmotion.satisfaction, Num(5))]

RECURSIVE SumLength(_)
SumLength(msgs) == IF msgs = <<>> THEN 0 ELSE Length(msgs[1].content) + SumLength(Tail(msgs))

\* engagement of calculateQualityMetrics: Math.min(10, Math.max(1, avgMessageLength / 10)),
\* the quotient sum / (10 * n) kept as the pair of its terms where it is within 1..10
Engagement(conversationData) ==
  LET msgs == UserMessages(conversationData)
      sum == SumLength(msgs)
      n == Len(msgs)
  IN IF n = 0 \/ sum <= 10 * n THEN Num(1)
     ELSE IF sum >= 100 * n THEN Num(10)
     ELSE [k |-> "ratio", v |-> 0, num |-> sum, den |-> 10 * n]

\* dominantEmotions of analyzeEmotionalContent: the primary emotions of the user
\* messages counted, sorted by count descending, the first five
DominantEmotions(conversationData) ==
  LET msgs == UserMessages(conversationData)
      named == SelectSeq(msgs, LAMBDA msg : msg.emotionAnalysis.primaryEmotion # "")
      top == TopFive(SortByCount(CountEntries(
               [i \in 1..Len(named) |-> named[i].emotionAnalysis.primaryEmotion])))
  IN [i \in 1..Len(top) |-> [emotion |-> top[i].key, frequency |-> top[i].count]]

-----------------------------------------------------------------------------
(* The analytics aggregator (conversationAnalyticsService).  The outcome of *)
(* a text-generation call is again a record with k "error", "unparsable",   *)
(* "null" or "object".                                                      *)

\* aiPerformance of getDefaultInsights: of its keys (empathy, relevance,
\* questionQuality, contextualAwareness) the schema knows the last two
DefaultAiPerformance ==
  [k |-> "object", responseRelevance |-> Undef, questionQuality |-> Num(7),
   helpfulness |-> Undef]

getDefaultInsights ==
  [k |-> "object", aiPerformance |-> DefaultAiPerformance, keyPoints |-> <<>>]

\* generateAIInsights: JSON.parse of the text, the default when the call or the
\* parse throws
generateAIInsights(o) ==
  IF o.k \in {"error", "unparsable"} THEN getDefaultInsights
  ELSE [k |-> o.k, aiPerformance |-> o.aiPerformance, keyPoints |-> o.keyPoints]

getDefaultPredictiveInsights ==
  [k |-> "object", riskFactors |-> <<>>,
   predictedOutcomes |-> [nextWeekMood |-> Num(5), nextWeekStress |-> Num(5),
                          nextWeekEnergy |-> Num(5), confidence |-> Num(5)]]

\* generatePredictiveInsights: JSON.parse of the text, the default when the call
\* or the parse throws
generatePredictiveInsights(o) ==
  IF o.k \in {"error", "unparsable"} THEN getDefaultPredictiveInsights
  ELSE [k |-> o.k, riskFactors |-> o.riskFactors,
        predictedOutcomes |-> o.predictedOutcomes]

\* calculateQualityMetrics reads aiInsights.aiPerformance?.helpfulness: it throws
\* when aiInsights is null
QualityMetricsThrows(aiInsights) == aiInsights.k = "null"

\* helpfulness: aiInsights.aiPerformance?.helpfulness || 7
Helpfulness(aiInsights) ==
  IF aiInsights.aiPerformance.k = "object"
  THEN OrElse(aiInsights.aiPerformance.helpfulness, Num(7))
  ELSE Num(7)

\* a value the schema casts to Number
CastsToNumber(x) == x.k \in {"undef", "null", "num"}

\* the ConversationAnalytics schema accepts the record: aiPerformance is an
\* object (or absent) of numbers, predictedOutcomes are numbers of any size
ValidConversationAnalytics(a) ==
  /\ a.aiPerformance.k \in {"undef", "object"}
  /\ CastsToNumber(a.aiPerformance.responseRelevance)
  /\ CastsToNumber(a.aiPerformance.questionQuality)
  /\ CastsToNumber(a.qualityMetrics.helpfulness)
  /\ CastsToNumber(a.predictedOutcomes.nextWeekMood)
  /\ CastsToNumber(a.predictedOutcomes.nextWeekStress)
  /\ CastsToNumber(a.predictedOutcomes.nextWeekEnergy)
  /\ CastsToNumber(a.predictedOutcomes.confidence)

\* EmotionConversation.findById(conversationId)
findById(cid) == { i \in 1..Len(conversations) : i = cid }

\* new ConversationAnalytics({tenantId, userId, conversationId, ...})
NewConversationAnalytics(t, u, cid, conversation, aiInsights, predictiveInsights, date) ==
  [tenantId |-> t, userId |-> u, conversationId |-> cid, date |-> date,
   conversationType |-> conversation.conversationType,
   metrics |-> calculateMetrics(extractConversationData(conversation)),
   emotionalInsights |->
     [dominantEmotions |-> DominantEmotions(extractConversationData(conversation))],
   topics |-> analyzeTopics(<<extractConversationData(conversation)>>),
   qualityMetrics |-> [engagement |-> Engagement(extractConversationData(conversation)),
                       helpfulness |-> Helpfulness(aiInsights)],
   aiPerformance |-> aiInsights.aiPerformance,
   recommendations |-> generateRecommendations(extractConversationData(conversation)),
   keyPoints |-> aiInsights.keyPoints,
   predictedOutcomes |-> predictiveInsights.predictedOutcomes]

\* A mutant of Analyze: the record is saved before the schema has accepted it
AnalyzeSavesUnvalidated(u, t, cid, ai, pred) ==
  /\ Authenticated(u, t)
  /\ Len(convAnalytics) < MaxAnalytics
  /\ LET found == findById(cid)
         aiInsights == generateAIInsights(ai)
         predictiveInsights == generatePredictiveInsights(pred)
     IN IF found = {} \/ QualityMetricsThrows(aiInsights)
        THEN /\ reply' = Reply("analyze", 500, IF found = {} THEN 0 ELSE cid, ai.k, FALSE)
             /\ UNCHANGED convAnalytics
        ELSE LET a == NewConversationAnalytics(t, u, cid, conversations[cid], aiInsights,
                                               predictiveInsights, Len(convAnalytics) + 1)
             IN /\ convAnalytics' = Append(convAnalytics, a)
                /\ reply' = Reply("analyze", IF ValidConversationAnalytics(a) THEN 200 ELSE 500,
                                  cid, ai.k, FALSE)
  /\ UNCHANGED <<surveyStores, conversations, emotionAnalytics, reqs, lastRead, llmIn,
                 userCollection, llmOut>>

\* POST /analyze/:conversationId, analyzeConversation: one record is built from
\* the conversation and the two text-generation calls, and saved; whatever is
\* thrown on the way is thrown on, and the route answers 500
Analyze(u, t, cid, ai, pred) ==
  /\ Authenticated(u, t)
  /\ Len(convAnalytics) < MaxAnalytics
  /\ LET found == findById(cid)
         aiInsights == generateAIInsights(ai)
         predictiveInsights == generatePredictiveInsights(pred)
     IN IF found = {} \/ QualityMetricsThrows(aiInsights)
        THEN /\ reply' = Reply("analyze", 500, IF found = {} THEN 0 ELSE cid, ai.k, FALSE)
             /\ UNCHANGED convAnalytics
        ELSE LET a == NewConversationAnalytics(t, u, cid, conversations[cid], aiInsights,
                                               predictiveInsights, Len(convAnalytics) + 1)
             IN IF ValidConversationAnalytics(a)
                THEN /\ convAnalytics' = Append(convAnalytics, a)
                     /\ reply' = Reply("analyze", 200, cid, ai.k, FALSE)
                ELSE /\ reply' = Reply("analyze", 500, cid, ai.k, FALSE)
                     /\ UNCHANGED convAnalytics
  /\ UNCHANGED <<surveyStores, conversations, emotionAnalytics, reqs, lastRead, llmIn,
                 userCollection, llmOut>>

-----------------------------------------------------------------------------
(* trackEmotionalPatterns, over a conversation collection *)

\* EmotionConversation.find({userId, createdAt >= startDate, status: 'completed'})
\*   .sort({createdAt: 1})
PatternsQuery(store, userId, start) ==
  SelectSeq(store, LAMBDA c : /\ c.userId = userId
                              /\ c.createdAt >= start
                              /\ c.status = "completed")

trackEmotionalPatterns(store, userId, start) ==
  LET convs == PatternsQuery(store, userId, start)
      emotions == [i \in 1..Len(convs) |-> convs[i].overallEmotion.dominantEmotion]
      triggers == Flatten([i \in 1..Len(convs) |->
                    Flatten([j \in 1..Len(convs[i].questions) |->
                       convs[i].questions[j].emotionAnalysis.triggers])])
      needs == Flatten([i \in 1..Len(convs) |->
                    Flatten([j \in 1..Len(convs[i].questions) |->
                       convs[i].questions[j].emotionAnalysis.needs])])
  IN IF Len(convs) = 0 THEN NoPatterns
     ELSE [dominantEmotions |-> TopFive(SortByCount(CountEntries(emotions))),
           emotionalTrends |-> [i \in 1..Len(convs) |->
              [date |-> convs[i].createdAt,
               mood |-> convs[i].overallEmotion.wellBeingScore,
               stress |-> convs[i].overallEmotion.stressLevel,
               energy |-> convs[i].overallEmotion.energyLevel]],
           emotionalTriggers |-> TopFive(SortByCount(CountEntries(triggers))),
           emotionalNeeds |-> TopFive(SortByCount(CountEntries(needs)))]

\* the conversations of tenant t
OfTenant(store, t) == SelectSeq(store, LAMBDA c : c.tenantId = t)

-----------------------------------------------------------------------------
(* The read routes.  A date is the order of creation of the record; a       *)
(* window starts at start and, where the route takes an end, ends at end.   *)

Dates == 0..(MaxAnalytics + 1)

\* a rolling window <<start, 0>>, or a window <<start, end>> with both dates given
Windows ==
  { <<start, 0>> : start \in Dates } \cup
  { w \in (1..MaxAnalytics) \X (1..MaxAnalytics) : w[1] <= w[2] }

AnalyticsIds(P(_)) == { i \in 1..Len(convAnalytics) : P(convAnalytics[i]) }

\* getDashboardAnalytics: find({tenantId, date: {$gte: startDate, $lte: endDate}}),
\* or find({tenantId, date: {$gte: startDate}}) for a rolling window (end = 0)
DashboardQuery(t, start, end) ==
  AnalyticsIds(LAMBDA a : /\ a.tenantId = t
                          /\ a.date >= start
                          /\ (end # 0 => a.date <= end))

\* GET /conversations: tenantId, and userId and the dates where given
ConversationsQuery(t, userId, start, end) ==
  AnalyticsIds(LAMBDA a : /\ a.tenantId = t
                          /\ (userId # "" => a.userId = userId)
                          /\ (start # 0 /\ end # 0 => a.date >= start /\ a.date <= end))

\* GET /user/:userId: find({tenantId, userId, date: {$gte: startDate}})
UserQuery(t, userId, start) ==
  AnalyticsIds(LAMBDA a : a.tenantId = t /\ a.userId = userId /\ a.date >= start)

\* GET /trends, /topics, /recommendations: find({tenantId, date: {$gte: startDate}})
TrendsQuery(t, start) == AnalyticsIds(LAMBDA a : a.tenantId = t /\ a.date >= start)
\* A mutant of TopicsQuery: the tenant filter is missing
TopicsQueryAnyTenant(t, start) == AnalyticsIds(LAMBDA a : a.date >= start)
TopicsQuery(t, start) == AnalyticsIds(LAMBDA a : a.tenantId = t /\ a.date >= start)
RecommendationsQuery(t, start) ==
  AnalyticsIds(LAMBDA a : a.tenantId = t /\ a.date >= start)

\* the records of ids, by date ascending and descending
ByDateAsc(ids) ==
  [i \in 1..Cardinality(ids) |->
     convAnalytics[CHOOSE id \in ids : Cardinality({ j \in ids : j < id }) = i - 1]]

ByDateDesc(ids) == Reverse(ByDateAsc(ids))

\* values.reduce((a, b) => a + b, 0) / values.length, kept as the list of its
\* terms; 0 / 0 is NaN
MeanOf(values) == IF values = <<>> THEN NaN ELSE [k |-> "mean", v |-> 0, of |-> values]

RECURSIVE SumCounts(_, _)
SumCounts(entries, key) ==
  IF entries = <<>> THEN 0
  ELSE (IF entries[1].key = key THEN entries[1].count ELSE 0) + SumCounts(Tail(entries), key)

\* acc[key] = (acc[key] || 0) + count over the entries, the keys in the order in
\* which they are first seen
SumByKey(entries) ==
  LET order == FirstSeen([i \in 1..Len(entries) |-> entries[i].key])
  IN [i \in 1..Len(order) |-> [key |-> order[i], count |-> SumCounts(entries, order[i])]]

calculateAverageMetrics(analytics) ==
  [wellBeingScore |-> MeanOf([i \in 1..Len(analytics) |-> analytics[i].metrics.wellBeingScore]),
   stressLevel |-> MeanOf([i \in 1..Len(analytics) |-> analytics[i].metrics.stressLevel]),
   satisfactionLevel |->
     MeanOf([i \in 1..Len(analytics) |-> analytics[i].metrics.satisfactionLevel]),
   engagement |-> MeanOf([i \in 1..Len(analytics) |-> analytics[i].qualityMetrics.engagement])]

calculateEmotionalTrends(analytics) ==
  LET entries == Flatten([i \in 1..Len(analytics) |->
                   [j \in 1..Len(analytics[i].emotionalInsights.dominantEmotions) |->
                      [key |-> analytics[i].emotionalInsights.dominantEmotions[j].emotion,
                       count |-> analytics[i].emotionalInsights.dominantEmotions[j].frequency]]])
      top == TopFive(SortByCount(SumByKey(entries)))
  IN [i \in 1..Len(top) |-> [emotion |-> top[i].key, frequency |-> top[i].count]]

calculateTopTopics(analytics) ==
  LET entries == Flatten([i \in 1..Len(analytics) |->
                   [j \in 1..Len(analytics[i].topics) |->
                      [key |-> analytics[i].topics[j].topic,
                       count |-> analytics[i].topics[j].frequency]]])
      top == TopFive(SortByCount(SumByKey(entries)))
  IN [i \in 1..Len(top) |-> [topic |-> top[i].key, frequency |-> top[i].count]]

\* the key `${rec.type}-${rec.priority}` is held as the record of its two parts
aggregateRecommendations(analytics) ==
  LET entries == Flatten([i \in 1..Len(analytics) |->
                   [j \in 1..Len(analytics[i].recommendations) |->
                      [key |-> analytics[i].recommendations[j], count |-> 1]]])
      sorted == SortByCount(SumByKey(entries))
  IN [i \in 1..Len(sorted) |->
        [type |-> sorted[i].key.type, priority |-> sorted[i].key.priority,
         count |-> sorted[i].count]]

getEmptyAnalytics ==
  [overview |-> [totalConversations |-> 0, avgWellBeing |-> Num(0), avgStress |-> Num(0),
                 avgSatisfaction |-> Num(0), avgEngagement |-> Num(0)],
   emotionalTrends |-> <<>>, topTopics |-> <<>>, recommendations |-> <<>>,
   timeRange |-> <<>>]

\* the rollup of aggregateAnalytics for a list of records
Rollup(analytics) ==
  LET avgMetrics == calculateAverageMetrics(analytics)
  IN [overview |-> [totalConversations |-> Len(analytics),
                    avgWellBeing |-> avgMetrics.wellBeingScore,
                    avgStress |-> avgMetrics.stressLevel,
                    avgSatisfaction |-> avgMetrics.satisfactionLevel,
                    avgEngagement |-> avgMetrics.engagement],
      emotionalTrends |-> calculateEmotionalTrends(analytics),
      topTopics |-> calculateTopTopics(analytics),
      recommendations |-> aggregateRecommendations(analytics),
      timeRange |-> [i \in 1..Len(analytics) |->
                       [date |-> analytics[i].date,
                        wellBeing |-> analytics[i].metrics.wellBeingScore,
                        stress |-> analytics[i].metrics.stressLevel,
                        satisfaction |-> analytics[i].metrics.satisfactionLevel]]]

\* A mutant of aggregateAnalytics: the empty list is not told apart
aggregateAnalyticsUnguarded(analytics) == Rollup(analytics)

aggregateAnalytics(analytics) ==
  IF Len(analytics) = 0 THEN getEmptyAnalytics ELSE Rollup(analytics)

\* the days of the model: day 1 is a Sunday
getDay(date) == (date - 1) % 7

Granularities == {"daily", "weekly"}

\* the key of the period of a record: its day, or the Sunday of its week
PeriodKey(date, granularity) ==
  IF granularity = "daily" THEN date ELSE date - getDay(date)

\* calculateTrends: the records grouped by period in the order in which the
\* periods are first seen, and per period the means of the four scores
calculateTrends(analytics, granularity) ==
  LET keys == FirstSeen([i \in 1..Len(analytics) |->
                           PeriodKey(analytics[i].date, granularity)])
      Of(key) == SelectSeq(analytics, LAMBDA a : PeriodKey(a.date, granularity) = key)
  IN [i \in 1..Len(keys) |->
        [date |-> keys[i],
         wellBeing |-> MeanOf([j \in 1..Len(Of(keys[i])) |->
                                 Of(keys[i])[j].metrics.wellBeingScore]),
         stress |-> MeanOf([j \in 1..Len(Of(keys[i])) |-> Of(keys[i])[j].metrics.stressLevel]),
         satisfaction |-> MeanOf([j \in 1..Len(Of(keys[i])) |->
                                    Of(keys[i])[j].metrics.satisfactionLevel]),
         engagement |-> MeanOf([j \in 1..Len(Of(keys[i])) |->
                                  Of(keys[i])[j].qualityMetrics.engagement])]]

\* the user may read the data of userId: itself, or any user when it is an admin
MayReadUser(u, userId) == u = userId \/ UserRole[u] = "admin"

Read(route, t, userId, start, st, ids, patterns) ==
  [route |-> route, tenant |-> t, userId |-> userId, start |-> start, status |-> st,
   ids |-> ids, patterns |-> patterns, data |-> NoData, granularity |-> "",
   again |-> FALSE]

ReadOnly == UNCHANGED <<surveyStores,
                        conversations, emotionAnalytics, convAnalytics, reqs, reply,
                        llmIn, userCollection, llmOut>>

GetDashboard(u, t, start, end) ==
  /\ Authenticated(u, t)
  /\ lastRead' = [Read("dashboard", t, "", 0, 200, DashboardQuery(t, start, end),
                       NoPatterns)
                  EXCEPT !.data = aggregateAnalytics(ByDateDesc(DashboardQuery(t, start, end)))]
  /\ ReadOnly

GetConversations(u, t, userId, start, end) ==
  /\ Authenticated(u, t)
  /\ lastRead' = Read("conversations", t, userId, 0, 200,
                      ConversationsQuery(t, userId, start, end), NoPatterns)
  /\ ReadOnly

GetUserAnalytics(u, t, userId, start) ==
  /\ Authenticated(u, t)
  /\ lastRead' = IF MayReadUser(u, userId)
                 THEN Read("user", t, userId, 0, 200, UserQuery(t, userId, start),
                           NoPatterns)
                 ELSE Read("user", t, userId, 0, 403, {}, NoPatterns)
  /\ ReadOnly

\* the read before this one was of the same route, under the same tenant, over
\* the same records and with the same granularity
Again(route, t, ids, granularity) ==
  /\ lastRead.route = route /\ lastRead.tenant = t /\ lastRead.ids = ids
  /\ lastRead.granularity = granularity

\* A mutant of GetTrends: the run writes into the records it has read
GetTrendsInPlace(u, t, start, granularity) ==
  /\ Authenticated(u, t)
  /\ lastRead' = [Read("trends", t, "", 0, 200, TrendsQuery(t, start), NoPatterns)
                  EXCEPT !.data = calculateTrends(ByDateAsc(TrendsQuery(t, start)), granularity),
                         !.granularity = granularity,
                         !.again = Again("trends", t, TrendsQuery(t, start), granularity)]
  /\ convAnalytics' = [i \in 1..Len(convAnalytics) |->
                         IF i \in TrendsQuery(t, start)
                         THEN [convAnalytics[i] EXCEPT !.metrics.wellBeingScore = Num(0)]
                         ELSE convAnalytics[i]]
  /\ UNCHANGED <<surveyStores, conversations, emotionAnalytics, reqs, reply, llmIn,
                 userCollection, llmOut>>

GetTrends(u, t, start, granularity) ==
  /\ Authenticated(u, t)
  /\ lastRead' = [Read("trends", t, "", 0, 200, TrendsQuery(t, start), NoPatterns)
                  EXCEPT !.data = calculateTrends(ByDateAsc(TrendsQuery(t, start)), granularity),
                         !.granularity = granularity,
                         !.again = Again("trends", t, TrendsQuery(t, start), granularity)]
  /\ ReadOnly

GetTopics(u, t, start) ==
  /\ Authenticated(u, t)
  /\ lastRead' = [Read("topics", t, "", 0, 200, TopicsQuery(t, start), NoPatterns)
                  EXCEPT !.data = analyzeTopics(ByDateAsc(TopicsQuery(t, start))),
                         !.again = Again("topics", t, TopicsQuery(t, start), "")]
  /\ ReadOnly

GetRecommendations(u, t, start) ==
  /\ Authenticated(u, t)
  /\ lastRead' = Read("recommendations", t, "", 0, 200,
                      RecommendationsQuery(t, start), NoPatterns)
  /\ ReadOnly

\* GET /emotion-conversations/patterns/:userId
GetPatterns(u, t, userId, start) ==
  /\ Authenticated(u, t)
  /\ lastRead' = IF MayReadUser(u, userId)
                 THEN Read("patterns", t, userId, start, 200, {},
                           trackEmotionalPatterns(conversations, userId, start))
                 ELSE Read("patterns", t, userId, start, 403, {}, NoPatterns)
  /\ ReadOnly

\* EmotionAnalytics.find({tenantId, userId, date: {$gte: startDate}})
EmotionUserQuery(t, userId, start) ==
  { i \in 1..Len(emotionAnalytics) :
      /\ emotionAnalytics[i].tenantId = t
      /\ emotionAnalytics[i].userId = userId
      /\ emotionAnalytics[i].conversationId >= start }

\* GET /emotion-analytics/user/:userId
GetEmotionUser(u, t, userId, start) ==
  /\ Authenticated(u, t)
  /\ lastRead' = IF MayReadUser(u, userId)
                 THEN Read("emotion_user", t, userId, start, 200,
                           EmotionUserQuery(t, userId, start),
                           trackEmotionalPatterns(conversations, userId, start))
                 ELSE Read("emotion_user", t, userId, start, 403, {}, NoPatterns)
  /\ ReadOnly

-----------------------------------------------------------------------------
(* The specification of the aggregator and the read routes, over a store of *)
(* two conversations, one of each tenant, as the conversation routes leave  *)
(* them.                                                                    *)

StressedOverall ==
  [analyzeOverallEmotionDefault EXCEPT !.dominantEmotion = "stress",
                                       !.wellBeingScore = Num(3), !.stressLevel = Num(8)]

StoredConversation(t, u, sid, status, overallEmotion) ==
  [NewConversation(t, u, sid, "daily") EXCEPT
     !.questions = <<QuestionEntry("q1", "deadline meeting stress",
                       [analyzeEmotionDefault EXCEPT !.triggers = <<"deadline">>])>>,
     !.status = status,
     !.overallEmotion = overallEmotion]

ConversationStates ==
  { <<"in_progress", NoOverallEmotion>>, <<"completed", analyzeOverallEmotionDefault>>,
    <<"completed", StressedOverall>> }

ConversationStores ==
  { << StoredConversation("tA", "u1", 1, s1[1], s1[2]),
       StoredConversation("tB", "u2", 2, s2[1], s2[2]) >> :
      s1 \in ConversationStates, s2 \in ConversationStates }

\* the snapshots complete has left of the completed conversations
SnapshotsOf(store) ==
  LET done == SelectSeq(store, LAMBDA c : c.status = "completed")
  IN [i \in 1..Len(done) |->
        NewEmotionAnalytics(done[i].tenantId, done[i].userId, done[i].overallEmotion,
                            done[i].insights, done[i].sessionId)]

BlankPredicted ==
  [nextWeekMood |-> Undef, nextWeekStress |-> Undef, nextWeekEnergy |-> Undef,
   confidence |-> Undef]

BlankAI == [k |-> "object", aiPerformance |-> [DefaultAiPerformance EXCEPT !.k = "undef",
                                               !.questionQuality = Undef],
            keyPoints |-> <<>>]

\* the insight call: a failure, null, an object without fields, a well-formed
\* object, and an object whose aiPerformance is a string
AIOutcomes ==
  { [BlankAI EXCEPT !.k = "error"],
    [BlankAI EXCEPT !.k = "null"],
    BlankAI,
    [BlankAI EXCEPT !.aiPerformance = [k |-> "object", responseRelevance |-> Num(8),
                                       questionQuality |-> Num(6), helpfulness |-> Undef]],
    [BlankAI EXCEPT !.aiPerformance.k = "str"] }

BlankPredictive == [k |-> "object", riskFactors |-> <<>>, predictedOutcomes |-> BlankPredicted]

\* the predictive call: a failure, an object without fields, a projection within
\* the ranges, and one outside them
PredictiveOutcomes ==
  { [BlankPredictive EXCEPT !.k = "error"],
    BlankPredictive,
    [BlankPredictive EXCEPT !.predictedOutcomes =
       [nextWeekMood |-> Num(6), nextWeekStress |-> Num(4), nextWeekEnergy |-> Num(7),
        confidence |-> Num(8)]],
    [BlankPredictive EXCEPT !.predictedOutcomes =
       [nextWeekMood |-> Num(MaxRaw), nextWeekStress |-> Num(4), nextWeekEnergy |-> Num(7),
        confidence |-> Num(8)]] }

ConversationIds == 1..3

InitAnalytics ==
  /\ conversations \in ConversationStores
  /\ emotionAnalytics = SnapshotsOf(conversations)
  /\ convAnalytics = <<>>
  /\ reqs = [r \in ReqIds |-> NoReq]
  /\ reply = NoReply
  /\ lastRead = NoRead
  /\ llmIn = NoOutcome
  /\ llmOut = NoOutcome
  /\ userCollection = <<>>
  /\ surveyCollection = <<>>
  /\ responseCollection = <<>>

NextAnalytics ==
  \E u \in Users, t \in Tenants, cid \in ConversationIds, ai \in AIOutcomes,
     pred \in PredictiveOutcomes : Analyze(u, t, cid, ai, pred)

SpecAnalytics == InitAnalytics /\ [][NextAnalytics]_vars

-----------------------------------------------------------------------------
(* The specification of the read routes: analyze calls whose text-generation *)
(* calls fail fill the store, and the read routes read it.                   *)

FailedAI == [BlankAI EXCEPT !.k = "error"]
FailedPredictive == [BlankPredictive EXCEPT !.k = "error"]

NextReads ==
  \/ \E u \in Users, t \in Tenants, cid \in ConversationIds :
        Analyze(u, t, cid, FailedAI, FailedPredictive)
  \/ \E u \in Users, t \in Tenants, w \in Windows : GetDashboard(u, t, w[1], w[2])
  \/ \E u \in Users, t \in Tenants, userId \in Users \cup {""}, w \in Windows :
        GetConversations(u, t, userId, w[1], w[2])
  \/ \E u \in Users, t \in Tenants, userId \in Users, start \in Dates :
        GetUserAnalytics(u, t, userId, start)
  \/ \E u \in Users, t \in Tenants, start \in Dates, granularity \in Granularities :
        GetTrends(u, t, start, granularity)
  \/ \E u \in Users, t \in Tenants, start \in Dates : GetTopics(u, t, start)
  \/ \E u \in Users, t \in Tenants, start \in Dates : GetRecommendations(u, t, start)

SpecReads == InitAnalytics /\ [][NextReads]_vars

-----------------------------------------------------------------------------
(* The specification of the pattern routes, over the same stores *)

NextPatterns ==
  \/ \E u \in Users, t \in Tenants, userId \in Users, start \in Dates :
        GetPatterns(u, t, userId, start)
  \/ \E u \in Users, t \in Tenants, userId \in Users, start \in Dates :
        GetEmotionUser(u, t, userId, start)

SpecPatterns == InitAnalytics /\ [][NextPatterns]_vars

-----------------------------------------------------------------------------
(* The specification of the extraction service alone: the outcome of the    *)
(* external call is drawn at the start, and the service function is applied *)
(* to it.                                                                   *)

\* what the external call may give for a numeric field
RawScores ==
  { Undef, Null, Str, Num(-MaxRaw), Num(0), Num(1), Num(10), Num(MaxRaw) }

Failures(blank) == { [blank EXCEPT !.k = k] : k \in {"error", "unparsable", "null"} }

RawEmotionOutcomes ==
  Failures(BlankEmotion) \cup
  { [BlankEmotion EXCEPT !.primaryEmotion = e, !.intensity = i, !.confidence = c,
                         !.sentiment = s] :
      e \in {"", "stress"}, i \in RawScores, c \in RawScores, s \in RawScores }

RawOverallOutcomes ==
  Failures(BlankOverall) \cup
  { [BlankOverall EXCEPT !.averageIntensity = a, !.wellBeingScore = w, !.stressLevel = s,
                         !.energyLevel = e, !.satisfaction = f] :
      a \in RawScores, w \in RawScores, s \in RawScores, e \in RawScores,
      f \in RawScores }

RawInsightOutcomes ==
  Failures(BlankInsights) \cup
  { [BlankInsights EXCEPT !.concerns = c, !.recommendations = r, !.keyTopics = t] :
      c \in {<<>>, <<"workload">>}, r \in {<<>>, <<"rest">>}, t \in {<<>>, <<"work">>} }

InitScore ==
  /\ conversations = <<>>
  /\ emotionAnalytics = <<>>
  /\ convAnalytics = <<>>
  /\ reqs = [r \in ReqIds |-> NoReq]
  /\ reply = NoReply
  /\ lastRead = NoRead
  /\ llmIn \in [fn : {"analyzeEmotion"}, o : RawEmotionOutcomes] \cup
               [fn : {"analyzeOverallEmotion"}, o : RawOverallOutcomes] \cup
               [fn : {"generateEmotionalInsights"}, o : RawInsightOutcomes]
  /\ llmOut = NoOutcome
  /\ userCollection = <<>>
  /\ surveyCollection = <<>>
  /\ responseCollection = <<>>

Returns(fn, result) ==
  /\ llmIn.fn = fn
  /\ llmOut = NoOutcome
  /\ llmOut' = result
  /\ UNCHANGED <<surveyStores,
                 conversations, emotionAnalytics, convAnalytics, reqs, reply, lastRead,
                 llmIn, userCollection>>

CallAnalyzeEmotion == Returns("analyzeEmotion", analyzeEmotion(llmIn.o))
CallAnalyzeOverallEmotion == Returns("analyzeOverallEmotion", analyzeOverallEmotion(llmIn.o))
CallGenerateEmotionalInsights ==
  Returns("generateEmotionalInsights", generateEmotionalInsights(llmIn.o))

NextScore ==
  \/ CallAnalyzeEmotion
  \/ CallAnalyzeOverallEmotion
  \/ CallGenerateEmotionalInsights

SpecScore == InitScore /\ [][NextScore]_vars

-----------------------------------------------------------------------------
(* The specification of the blocks: a conversation is drawn at the start,   *)
(* and a block is computed from it.                                         *)

BlockTexts ==
  {"deadline meeting stress", "work job office meeting", "Stressed about the Project", "fine"}

TurnLists == UNION { [1..n -> BlockTexts] : n \in 0..MaxTurns }

BlockConversations ==
  { [StoredConversation("tA", "u1", 1, "completed",
       [analyzeOverallEmotionDefault EXCEPT !.stressLevel = s, !.wellBeingScore = w])
     EXCEPT !.questions = [i \in 1..Len(turns) |->
                             QuestionEntry("q1", turns[i], analyzeEmotionDefault)]] :
      s \in {Undef, Num(7), Num(8)}, w \in {Undef, Num(3), Num(4)}, turns \in TurnLists }

Returned(v) == [k |-> "returned", v |-> v]

\* the three recommendations generateRecommendations can push, as pushed
StressRecommendation ==
  [type |-> "emotional_support", priority |-> "high",
   description |-> "High stress levels detected. Consider stress management techniques.",
   actionable |-> TRUE]
WellBeingRecommendation ==
  [type |-> "personal_development", priority |-> "high",
   description |-> "Low well-being score. Focus on self-care and positive activities.",
   actionable |-> TRUE]
WorkRecommendation ==
  [type |-> "workplace_improvement", priority |-> "medium",
   description |-> "Work-related concerns identified. Consider workplace support resources.",
   actionable |-> TRUE]

\* the recommendation lists handed to initializeActionTracking
RecommendationLists(maxLen) ==
  UNION { [1..n -> {StressRecommendation, WellBeingRecommendation, WorkRecommendation}] :
          n \in 0..maxLen }

\* the day initializeActionTracking runs on
TrackingDays == 0..1

\* A mutant of initializeActionTracking: follow-up unless some recommendation
\* is not of high priority
initializeActionTrackingEvery(recommendations, now) ==
  [recommendationsGiven |->
     [i \in 1..Len(recommendations) |->
        [type |-> recommendations[i].type,
         description |-> recommendations[i].description,
         priority |-> recommendations[i].priority,
         givenAt |-> now]],
   actionsTaken |-> <<>>,
   followUpRequired |-> \A i \in 1..Len(recommendations) : recommendations[i].priority = "high",
   followUpDate |-> now + 7,
   interventionHistory |-> <<>>]

\* initializeActionTracking: one entry per recommendation, stamped with the
\* current time; follow-up when some recommendation is of high priority, due
\* seven days from now
initializeActionTracking(recommendations, now) ==
  [recommendationsGiven |->
     [i \in 1..Len(recommendations) |->
        [type |-> recommendations[i].type,
         description |-> recommendations[i].description,
         priority |-> recommendations[i].priority,
         givenAt |-> now]],
   actionsTaken |-> <<>>,
   followUpRequired |-> \E i \in 1..Len(recommendations) : recommendations[i].priority = "high",
   followUpDate |-> now + 7,
   interventionHistory |-> <<>>]

\* the sentiment (in tenths) and the intensity of a stored emotionAnalysis
ScoredSentiments == {Undef, Num(-5), Num(0), Num(5), Num(10)}
ScoredIntensities == {Undef, Num(3), Num(5), Num(8)}

\* conversations of at most maxLen responses with scored emotion analyses
ScoredConversations(maxLen) ==
  UNION { { [StoredConversation("tA", "u1", 1, "completed", analyzeOverallEmotionDefault)
             EXCEPT !.questions = [i \in 1..n |->
               QuestionEntry("q1", "fine",
                 [analyzeEmotionDefault EXCEPT !.sentiment = st[i], !.intensity = it[i]])]] :
            st \in [1..n -> ScoredSentiments], it \in [1..n -> ScoredIntensities] } :
          n \in 0..maxLen }

InitBlocks ==
  /\ conversations = <<>>
  /\ emotionAnalytics = <<>>
  /\ convAnalytics = <<>>
  /\ reqs = [r \in ReqIds |-> NoReq]
  /\ reply = NoReply
  /\ lastRead = NoRead
  /\ \/ llmIn \in [fn : {"generateRecommendations", "analyzeTopics"},
                   o : { extractConversationData(c) : c \in BlockConversations }]
     \/ llmIn \in [fn : {"calculateMetrics"},
                   o : { extractConversationData(c) : c \in ScoredConversations(MaxTurns) }]
     \/ llmIn \in [fn : {"initializeActionTracking"},
                   o : [recommendations : RecommendationLists(MaxRecs), now : TrackingDays]]
  /\ llmOut = NoOutcome
  /\ userCollection = <<>>
  /\ surveyCollection = <<>>
  /\ responseCollection = <<>>

\* const topics = this.analyzeTopics(conversationData)
CallAnalyzeTopics == Returns("analyzeTopics", Returned(analyzeTopics(<<llmIn.o>>)))

\* const recommendations = this.generateRecommendations(conversationData, aiInsights)
CallGenerateRecommendations ==
  Returns("generateRecommendations", Returned(generateRecommendations(llmIn.o)))

\* const actionTracking = this.initializeActionTracking(recommendations)
CallInitializeActionTracking ==
  Returns("initializeActionTracking",
          Returned(initializeActionTracking(llmIn.o.recommendations, llmIn.o.now)))

\* const metrics = this.calculateMetrics(conversationData)
CallCalculateMetrics == Returns("calculateMetrics", Returned(calculateMetrics(llmIn.o)))

NextBlocks ==
  \/ CallAnalyzeTopics
  \/ CallGenerateRecommendations
  \/ CallCalculateMetrics
  \/ CallInitializeActionTracking

SpecBlocks == InitBlocks /\ [][NextBlocks]_vars

-----------------------------------------------------------------------------
(* The historical analysis of analyzeConversation *)

\* EmotionConversation.find({userId, tenantId, createdAt: {$gte: 90 days ago}})
\*   .sort({createdAt: -1})
RecentConversations(store, userId, tenantId, start) ==
  Reverse(SelectSeq(store, LAMBDA c : /\ c.userId = userId
                                      /\ c.tenantId = tenantId
                                      /\ c.createdAt >= start))

\* c.overallEmotion?.wellBeingScore || 5
WellBeingOr5(c) == OrElse(c.overallEmotion.wellBeingScore, Num(5)).v

RECURSIVE SumWellBeing(_)
SumWellBeing(cs) == IF cs = <<>> THEN 0 ELSE WellBeingOr5(cs[1]) + SumWellBeing(Tail(cs))

calculatePreviousMood(recentConversations) ==
  IF Len(recentConversations) = 0 THEN Num(5)
  ELSE OrElse(recentConversations[1].overallEmotion.wellBeingScore, Num(5))

\* A mutant of calculateTrendDirection: the means are compared without the margin
calculateTrendDirectionNoMargin(recentConversations) ==
  LET recent == Slice(recentConversations, 0, 3)
      older == Slice(recentConversations, 3, 6)
      rs == SumWellBeing(recent)
      os == SumWellBeing(older)
      rl == Len(recent)
      ol == Len(older)
  IN IF Len(recentConversations) < 2 THEN "stable"
     ELSE IF rl = 0 \/ ol = 0 THEN "stable"
     ELSE IF rs * ol > os * rl THEN "improving"
     ELSE IF rs * ol < os * rl THEN "declining"
     ELSE "stable"

\* the means of the three newest and of the three before them are compared:
\* recentAvg > olderAvg + 0.5 is 2 * rs * ol > 2 * os * rl + rl * ol
calculateTrendDirection(recentConversations) ==
  LET recent == Slice(recentConversations, 0, 3)
      older == Slice(recentConversations, 3, 6)
      rs == SumWellBeing(recent)
      os == SumWellBeing(older)
      rl == Len(recent)
      ol == Len(older)
  IN IF Len(recentConversations) < 2 THEN "stable"
     ELSE IF rl = 0 \/ ol = 0 THEN "stable"
     ELSE IF 2 * rs * ol > 2 * os * rl + rl * ol THEN "improving"
     ELSE IF 2 * rs * ol < 2 * os * rl - rl * ol THEN "declining"
     ELSE "stable"

analyzeHistoricalContext(store, userId, tenantId, start) ==
  LET recentConversations == RecentConversations(store, userId, tenantId, start)
  IN [previousMood |-> calculatePreviousMood(recentConversations),
      trendDirection |-> calculateTrendDirection(recentConversations)]

\* stores of up to MaxHistory conversations of two users, oldest first
HistoryWellBeings == {Undef, Num(4), Num(5), Num(8)}

\* the stores of at most maxLen conversations
HistoryStores(maxLen) ==
  UNION { { [i \in 1..n |->
               StoredConversation(UserTenant[owner[i]], owner[i], i, "completed",
                  [analyzeOverallEmotionDefault EXCEPT !.wellBeingScore = w[i]])] :
              owner \in [1..n -> Users], w \in [1..n -> HistoryWellBeings] } :
          n \in 0..maxLen }

InitHistory ==
  /\ conversations = <<>>
  /\ emotionAnalytics = <<>>
  /\ convAnalytics = <<>>
  /\ reqs = [r \in ReqIds |-> NoReq]
  /\ reply = NoReply
  /\ lastRead = NoRead
  /\ llmIn \in { in \in [fn : {"analyzeHistoricalContext"},
                          o : [store : HistoryStores(MaxHistory), start : {0, 2},
                               cid : 0..MaxHistory]] :
                   \* cid: the conversation under analysis, 0 for none of this store
                   in.o.cid <= Len(in.o.store) }
  /\ llmOut = NoOutcome
  /\ userCollection = <<>>
  /\ surveyCollection = <<>>
  /\ responseCollection = <<>>

\* const historicalAnalysis = await this.analyzeHistoricalContext(userId, tenantId, ...)
\* of an analyze of user u1 under tenant tA
CallAnalyzeHistoricalContext ==
  Returns("analyzeHistoricalContext",
          Returned(analyzeHistoricalContext(llmIn.o.store, "u1", "tA", llmIn.o.start)))

NextHistory == CallAnalyzeHistoricalContext

SpecHistory == InitHistory /\ [][NextHistory]_vars

-----------------------------------------------------------------------------
(* calculateTrendDirection over lists of conversations, newest first, of    *)
(* which only the well-being score is read                                  *)

TrendWellBeings == {Undef, Num(4), Num(5), Num(6)}

TrendLists(maxLen) ==
  UNION { [1..n -> [overallEmotion : [wellBeingScore : TrendWellBeings]]] : n \in 0..maxLen }

InitTrend ==
  /\ conversations = <<>>
  /\ emotionAnalytics = <<>>
  /\ convAnalytics = <<>>
  /\ reqs = [r \in ReqIds |-> NoReq]
  /\ reply = NoReply
  /\ lastRead = NoRead
  /\ llmIn \in [fn : {"calculateTrendDirection"}, o : TrendLists(MaxRecent)]
  /\ llmOut = NoOutcome
  /\ userCollection = <<>>
  /\ surveyCollection = <<>>
  /\ responseCollection = <<>>

\* trendDirection: this.calculateTrendDirection(recentConversations)
CallCalculateTrendDirection ==
  Returns("calculateTrendDirection", Returned(calculateTrendDirection(llmIn.o)))

NextTrend == CallCalculateTrendDirection

SpecTrend == InitTrend /\ [][NextTrend]_vars

-----------------------------------------------------------------------------
(* analyzeContextualFactors.  A time is the hour, the day of the week and   *)
(* the month a Date gives; the clock is read when the analysis runs.        *)

Hours == {0, 5, 6, 11, 12, 17, 18, 23}
WeekDays == {0, 6}
Months == {0, 2, 3, 5, 6, 8, 9, 11}
Times == [hour : Hours, day : WeekDays, month : Months]

getTimeOfDay(date) ==
  IF date.hour < 6 THEN "night"
  ELSE IF date.hour < 12 THEN "morning"
  ELSE IF date.hour < 18 THEN "afternoon"
  ELSE "evening"

getDayOfWeek(date) ==
  <<"sunday", "monday", "tuesday", "wednesday", "thursday", "friday", "saturday">>[date.day + 1]

getSeason(date) ==
  IF date.month < 3 THEN "spring"
  ELSE IF date.month < 6 THEN "summer"
  ELSE IF date.month < 9 THEN "autumn"
  ELSE "winter"

\* analyzeContextualFactors(conversation), run when the clock reads now:
\* const now = new Date()
analyzeContextualFactors(conversation, now) ==
  [timeOfDay |-> getTimeOfDay(now), dayOfWeek |-> getDayOfWeek(now),
   season |-> getSeason(now)]

InitContext ==
  /\ conversations = <<>>
  /\ emotionAnalytics = <<>>
  /\ convAnalytics = <<>>
  /\ reqs = [r \in ReqIds |-> NoReq]
  /\ reply = NoReply
  /\ lastRead = NoRead
  /\ llmIn \in [fn : {"analyzeContextualFactors"},
                o : [conversation : [createdAt : Times], now : Times]]
  /\ llmOut = NoOutcome
  /\ userCollection = <<>>
  /\ surveyCollection = <<>>
  /\ responseCollection = <<>>

\* const contextualAnalysis = this.analyzeContextualFactors(conversation)
CallAnalyzeContextualFactors ==
  Returns("analyzeContextualFactors",
          Returned(analyzeContextualFactors(llmIn.o.conversation, llmIn.o.now)))

NextContext == CallAnalyzeContextualFactors

SpecContext == InitContext /\ [][NextContext]_vars

-----------------------------------------------------------------------------
(* resolveTenant.  The Tenant collection holds up to three tenants, tL the  *)
(* one of domain localhost; a request carries an x-tenant-id header, a      *)
(* subdomain and a host, each possibly of no tenant.                        *)

TenantIds == Tenants \cup {"tL"}

Domain(id) == CASE id = "tA" -> "a.example" [] id = "tB" -> "b.example" [] OTHER -> "localhost"
Subdomain(id) == CASE id = "tA" -> "a" [] id = "tB" -> "b" [] OTHER -> "default"

\* a tenant document: stored or not, isActive, subscription.status
TenantDocs ==
  [present : {TRUE}, isActive : BOOLEAN, status : {"active", "suspended", "cancelled"}] \cup
  {[present |-> FALSE, isActive |-> FALSE, status |-> ""]}

NoTenant == [id |-> "", isActive |-> FALSE, status |-> ""]

\* new Tenant({name, domain: 'localhost', subdomain: 'default'}): the schema
\* defaults are isActive true and subscription.status active
DefaultTenant == [id |-> "new", isActive |-> TRUE, status |-> "active"]

TenantOf(store, id) == [id |-> id, isActive |-> store[id].isActive, status |-> store[id].status]

\* Tenant.findById(header): null for an id of no tenant
TenantById(store, header) ==
  IF header \in TenantIds /\ store[header].present THEN TenantOf(store, header) ELSE NoTenant

\* Tenant.findOne({subdomain, isActive: true}) and Tenant.findOne({domain, isActive: true});
\* domain and subdomain are unique
TenantWhere(store, P(_)) ==
  LET found == { id \in TenantIds : store[id].present /\ store[id].isActive /\ P(id) }
  IN IF found = {} THEN NoTenant ELSE TenantOf(store, CHOOSE id \in found : TRUE)

\* the header is no ObjectId: findById throws a CastError
Malformed(header) == header = "bad"

\* the save of the default tenant meets the unique index on domain or subdomain
DefaultTenantCollides(store) == store["tL"].present

\* the four lookups of resolveTenant, in order: the header, the subdomain, the
\* host, and in development the tenant of localhost, created when absent;
\* threw: the header lookup or the save of the default tenant failed
LookupTenant(store, req) ==
  LET byHeader == IF req.header # "" THEN TenantById(store, req.header) ELSE NoTenant
      bySubdomain == IF byHeader = NoTenant /\ req.subdomain # ""
                     THEN TenantWhere(store, LAMBDA id : Subdomain(id) = req.subdomain)
                     ELSE byHeader
      byDomain == IF bySubdomain = NoTenant
                  THEN TenantWhere(store, LAMBDA id : Domain(id) = req.host)
                  ELSE bySubdomain
      byLocalhost == IF byDomain = NoTenant /\ req.env = "development"
                     THEN TenantWhere(store, LAMBDA id : Domain(id) = "localhost")
                     ELSE byDomain
      creates == byDomain = NoTenant /\ req.env = "development" /\ byLocalhost = NoTenant
  IN [tenant |-> IF creates THEN DefaultTenant ELSE byLocalhost,
      creates |-> creates,
      threw |-> \/ req.header # "" /\ Malformed(req.header)
                \/ creates /\ DefaultTenantCollides(store)]

\* created: the default tenant was saved to the collection
TenantAnswer(st) == [status |-> st, tenant |-> NoTenant, next |-> FALSE, created |-> FALSE]

\* A mutant of resolveTenant: the subscription is not looked at
resolveTenantAnySubscription(store, req) ==
  LET found == LookupTenant(store, req)
  IN IF found.threw THEN TenantAnswer(500)
     ELSE IF found.tenant = NoTenant THEN TenantAnswer(404)
     ELSE IF ~found.tenant.isActive THEN TenantAnswer(403)
     ELSE [status |-> 0, tenant |-> found.tenant, next |-> TRUE, created |-> found.creates]

\* resolveTenant: the status it answers with (0 when it answers nothing), the
\* tenant it sets on the request, and whether it calls next()
resolveTenant(store, req) ==
  LET found == LookupTenant(store, req)
  IN IF found.threw THEN TenantAnswer(500)
     ELSE IF found.tenant = NoTenant THEN TenantAnswer(404)
     ELSE IF ~found.tenant.isActive THEN TenantAnswer(403)
     ELSE IF found.tenant.status # "active" THEN TenantAnswer(403)
     ELSE [status |-> 0, tenant |-> found.tenant, next |-> TRUE, created |-> found.creates]

TenantRequests ==
  [header : {"", "tA", "tB", "t9", "bad"}, subdomain : {"", "a", "x"},
   host : {"a.example", "localhost", "x.example"}, env : {"development", "production"}]

(* authenticateToken.  A bearer credential is absent, not verifiable, expired *)
(* or valid; an expired or valid one names a user id.                         *)

UserDocs ==
  [present : {TRUE}, tenantId : Tenants, isActive : BOOLEAN] \cup
  {[present |-> FALSE, tenantId |-> "", isActive |-> FALSE]}

Tokens ==
  {[kind |-> "none", userId |-> ""], [kind |-> "invalid", userId |-> ""]} \cup
  [kind : {"valid", "expired"}, userId : Users \cup {"u9"}]

\* jwt.verify(token, JWT_SECRET): the payload, or the name of the error thrown
verify(token) ==
  CASE token.kind = "valid" -> [threw |-> "", userId |-> token.userId]
    [] token.kind = "expired" -> [threw |-> "TokenExpiredError", userId |-> ""]
    [] OTHER -> [threw |-> "JsonWebTokenError", userId |-> ""]

AuthAnswer(st) == [status |-> st, user |-> "", next |-> FALSE]

\* A mutant of authenticateToken: the user is looked up by id alone
authenticateTokenAnyTenant(users, tenant, token) ==
  LET decoded == verify(token)
      found == { u \in Users : /\ users[u].present /\ u = decoded.userId
                               /\ users[u].isActive }
  IN IF token.kind = "none" THEN AuthAnswer(401)
     ELSE IF decoded.threw \in {"JsonWebTokenError", "TokenExpiredError"} THEN AuthAnswer(401)
     ELSE IF found = {} THEN AuthAnswer(401)
     ELSE [status |-> 0, user |-> CHOOSE u \in found : TRUE, next |-> TRUE]

\* authenticateToken under the tenant resolveTenant has set on the request: the
\* status it answers with (0 when it answers nothing), the user it sets on the
\* request, and whether it calls next()
authenticateToken(users, tenant, token) ==
  LET decoded == verify(token)
      \* User.findOne({_id: decoded.userId, tenantId: req.tenant._id, isActive: true})
      found == { u \in Users : /\ users[u].present /\ u = decoded.userId
                               /\ users[u].tenantId = tenant /\ users[u].isActive }
  IN IF token.kind = "none" THEN AuthAnswer(401)
     ELSE IF decoded.threw \in {"JsonWebTokenError", "TokenExpiredError"} THEN AuthAnswer(401)
     ELSE IF found = {} THEN AuthAnswer(401)
     ELSE [status |-> 0, user |-> CHOOSE u \in found : TRUE, next |-> TRUE]

InitTenant ==
  /\ conversations = <<>>
  /\ emotionAnalytics = <<>>
  /\ convAnalytics = <<>>
  /\ reqs = [r \in ReqIds |-> NoReq]
  /\ reply = NoReply
  /\ lastRead = NoRead
  /\ \/ llmIn \in [fn : {"resolveTenant"},
                   o : [store : [TenantIds -> TenantDocs], req : TenantRequests]]
     \/ llmIn \in [fn : {"authenticateToken"},
                   o : [users : [Users -> UserDocs], tenant : Tenants, token : Tokens]]
  /\ llmOut = NoOutcome
  /\ userCollection = <<>>
  /\ surveyCollection = <<>>
  /\ responseCollection = <<>>

\* app.use(resolveTenant)
CallResolveTenant ==
  Returns("resolveTenant", Returned(resolveTenant(llmIn.o.store, llmIn.o.req)))

\* router.use(authenticateToken)
CallAuthenticateToken ==
  Returns("authenticateToken",
          Returned(authenticateToken(llmIn.o.users, llmIn.o.tenant, llmIn.o.token)))

NextTenant == CallResolveTenant \/ CallAuthenticateToken

SpecTenant == InitTenant /\ [][NextTenant]_vars

-----------------------------------------------------------------------------
(* POST /users.  The handler awaits the lookup of the pair, the count of    *)
(* the tenant's users and the save; other handlers run between the awaits.  *)

RawEmails == {"", "a@x.io", "A@x.io", "b@x.io"}
RequestRoles == {"admin", "manager"}

\* body('email').isEmail()
isEmail(e) == e # ""

\* normalizeEmail(), and lowercase: true of the schema: the address in lower case
normalizeEmail(e) == IF e = "A@x.io" THEN "a@x.io" ELSE e

\* settings.limits.maxUsers of the Tenant schema
maxUsers == 50

\* role: enum ['admin', 'user'] of the User schema
SchemaRoles == {"admin", "user"}

UserEmail == [u \in Users |-> IF u = "u1" THEN "root@x.io" ELSE "a@x.io"]

\* the stored record of an acting user
UserRecord(u) == [tenantId |-> UserTenant[u], email |-> UserEmail[u], role |-> UserRole[u]]

\* User.findOne({email, tenantId})
FindUser(email, t) ==
  { i \in 1..Len(userCollection) :
      userCollection[i].email = email /\ userCollection[i].tenantId = t }

\* User.countDocuments({tenantId})
CountUsers(t) == Cardinality({ i \in 1..Len(userCollection) : userCollection[i].tenantId = t })

\* POST /users up to the await of countDocuments: requireRole, validation, findOne
CreateUserFind(r, u, t, rawEmail, role) ==
  /\ FreeSlot(r)
  /\ Authenticated(u, t)
  /\ IF UserRole[u] \notin {"admin", "manager"}
     THEN reply' = Reply("createUser", 403, 0, "", FALSE) /\ UNCHANGED reqs
     ELSE IF ~isEmail(rawEmail)
     THEN reply' = Reply("createUser", 400, 0, "", FALSE) /\ UNCHANGED reqs
     ELSE IF FindUser(normalizeEmail(rawEmail), t) # {}
     THEN reply' = Reply("createUser", 400, 0, "exists", FALSE) /\ UNCHANGED reqs
     ELSE /\ reqs' = [reqs EXCEPT ![r] =
               [NoReq EXCEPT !.pc = "create_count", !.user = u, !.tenant = t,
                             !.email = normalizeEmail(rawEmail), !.role = role]]
          /\ UNCHANGED reply
  /\ UNCHANGED <<surveyStores,
                 conversations, emotionAnalytics, convAnalytics, lastRead, llmIn, llmOut,
                 userCollection>>

\* POST /users from the return of findOne to the await of save: countDocuments
\* against the tenant's limit, then the password hash
CreateUserCount(r) ==
  /\ reqs[r].pc = "create_count"
  /\ IF CountUsers(reqs[r].tenant) >= maxUsers
     THEN /\ reply' = Reply("createUser", 403, 0, "limit", FALSE)
          /\ reqs' = [reqs EXCEPT ![r] = NoReq]
     ELSE /\ reqs' = [reqs EXCEPT ![r].pc = "create_save"]
          /\ UNCHANGED reply
  /\ UNCHANGED <<surveyStores,
                 conversations, emotionAnalytics, convAnalytics, lastRead, llmIn, llmOut,
                 userCollection>>

\* A mutant of CreateUserSave: the collection has no unique index
CreateUserSaveNoIndex(r) ==
  /\ reqs[r].pc = "create_save"
  /\ Len(userCollection) < MaxUserRecords
  /\ IF reqs[r].role \notin SchemaRoles
     THEN /\ reply' = Reply("createUser", 500, 0, "ValidationError", FALSE)
          /\ UNCHANGED userCollection
     ELSE /\ userCollection' = Append(userCollection,
               [tenantId |-> reqs[r].tenant, email |-> reqs[r].email, role |-> reqs[r].role])
          /\ reply' = Reply("createUser", 201, 0, "", FALSE)
  /\ reqs' = [reqs EXCEPT ![r] = NoReq]
  /\ UNCHANGED <<surveyStores, conversations, emotionAnalytics, convAnalytics, lastRead,
                 llmIn, llmOut>>

\* POST /users from the save: the schema validates the document, the unique
\* index on (tenantId, email) decides the insert, reply
CreateUserSave(r) ==
  /\ reqs[r].pc = "create_save"
  /\ IF reqs[r].role \notin SchemaRoles
     THEN /\ reply' = Reply("createUser", 500, 0, "ValidationError", FALSE)
          /\ UNCHANGED userCollection
     ELSE IF FindUser(reqs[r].email, reqs[r].tenant) # {}
     THEN /\ reply' = Reply("createUser", 500, 0, "E11000", FALSE)
          /\ UNCHANGED userCollection
     ELSE /\ Len(userCollection) < MaxUserRecords
          /\ userCollection' = Append(userCollection,
               [tenantId |-> reqs[r].tenant, email |-> reqs[r].email, role |-> reqs[r].role])
          /\ reply' = Reply("createUser", 201, 0, "", FALSE)
  /\ reqs' = [reqs EXCEPT ![r] = NoReq]
  /\ UNCHANGED <<surveyStores, conversations, emotionAnalytics, convAnalytics, lastRead,
                 llmIn, llmOut>>

\* the acting users are stored
InitUsers ==
  /\ conversations = <<>>
  /\ emotionAnalytics = <<>>
  /\ convAnalytics = <<>>
  /\ reqs = [r \in ReqIds |-> NoReq]
  /\ reply = NoReply
  /\ lastRead = NoRead
  /\ llmIn = NoOutcome
  /\ llmOut = NoOutcome
  /\ userCollection = <<UserRecord("u1"), UserRecord("u2")>>
  /\ surveyCollection = <<>>
  /\ responseCollection = <<>>

NextUsers ==
  \/ \E r \in ReqIds, u \in Users, t \in Tenants, rawEmail \in RawEmails,
        role \in RequestRoles : CreateUserFind(r, u, t, rawEmail, role)
  \/ \E r \in ReqIds : CreateUserCount(r)
  \/ \E r \in ReqIds : CreateUserSave(r)

SpecUsers == InitUsers /\ [][NextUsers]_vars

-----------------------------------------------------------------------------
(* Surveys: the create-survey route and the submit-response route with its  *)
(* helper updateSurveyAnalytics. Each await of a handler ends a step, so    *)
(* that handlers in flight interleave at their awaits.                      *)

\* settings.limits.maxSurveys of the tenant documents of the model: tenant tA
\* is on a plan of two surveys, tenant tB on a plan of one
maxSurveys(t) == IF t = "tA" THEN 2 ELSE 1

\* the settings a create request carries: none, a limit of one response, or
\* authentication required
BodySettings ==
  { [maxResponses |-> Undef, requireAuthentication |-> FALSE],
    [maxResponses |-> Num(1), requireAuthentication |-> FALSE],
    [maxResponses |-> Undef, requireAuthentication |-> TRUE] }

\* new Survey({... settings: {requireAuthentication: ... || false,
\* maxResponses: settings.maxResponses || 1000, isActive: true}}); analytics
\* takes the schema default
NewSurvey(t, u, settings) ==
  [tenantId |-> t, createdBy |-> u,
   settings |-> [requireAuthentication |-> settings.requireAuthentication,
                 maxResponses |-> OrElse(settings.maxResponses, Num(1000)).v,
                 isActive |-> TRUE],
   analytics |-> [totalResponses |-> 0]]

\* Survey.countDocuments({tenantId})
CountSurveys(t) ==
  Cardinality({ i \in 1..Len(surveyCollection) : surveyCollection[i].tenantId = t })

\* SurveyResponse.countDocuments({surveyId, tenantId})
CountResponses(sid, t) ==
  Cardinality({ i \in 1..Len(responseCollection) :
                  /\ responseCollection[i].surveyId = sid
                  /\ responseCollection[i].tenantId = t })

\* SurveyResponse.find({surveyId})
FindResponses(sid) ==
  { i \in 1..Len(responseCollection) : responseCollection[i].surveyId = sid }

\* Survey.findOne({_id: surveyId, tenantId, 'settings.isActive': true})
FindActiveSurvey(sid, t) ==
  { i \in 1..Len(surveyCollection) :
      /\ i = sid
      /\ surveyCollection[i].tenantId = t
      /\ surveyCollection[i].settings.isActive }

surveyFrame ==
  UNCHANGED <<conversations, emotionAnalytics, convAnalytics, lastRead, llmIn, llmOut,
              userCollection>>

\* POST / up to the save: validation, then the count against the tenant's limit
CreateSurveyCount(r, u, t, valid, settings) ==
  /\ FreeSlot(r)
  /\ Authenticated(u, t)
  /\ IF ~valid
     THEN reply' = Reply("createSurvey", 400, 0, "", FALSE) /\ UNCHANGED reqs
     ELSE LET surveyCount == CountSurveys(t)
          IN IF surveyCount >= maxSurveys(t)
             THEN reply' = Reply("createSurvey", 403, 0, "", FALSE) /\ UNCHANGED reqs
             ELSE /\ reqs' = [reqs EXCEPT ![r] =
                       [NoReq EXCEPT !.pc = "create_counted", !.user = u, !.tenant = t,
                                     !.counted = surveyCount, !.settings = settings]]
                  /\ UNCHANGED reply
  /\ UNCHANGED <<surveyCollection, responseCollection>>
  /\ surveyFrame

\* POST / from the count: await survey.save(), reply 201
CreateSurveySave(r) ==
  /\ reqs[r].pc = "create_counted"
  /\ surveyCollection' =
       Append(surveyCollection, NewSurvey(reqs[r].tenant, reqs[r].user, reqs[r].settings))
  /\ reply' = Reply("createSurvey", 201, Len(surveyCollection) + 1, "", FALSE)
  /\ reqs' = [reqs EXCEPT ![r] = NoReq]
  /\ UNCHANGED responseCollection
  /\ surveyFrame

\* the submissions in flight
Submitting ==
  { r \in ReqIds : reqs[r].pc \in {"submit_found", "submit_counted", "submit_saved",
                                    "submit_recounted"} }

\* the survey ids a submission names: the stored ones and one that is not
SurveyIds == 1..(maxSurveys("tA") + maxSurveys("tB") + 1)

\* POST /:surveyId up to the count: validation, the survey is looked up, and
\* a survey that requires authentication turns away a request without a user
SubmitFind(r, t, sid, valid, hasUser) ==
  /\ FreeSlot(r)
  /\ Len(responseCollection) + Cardinality(Submitting) < MaxResponses
  /\ IF ~valid
     THEN reply' = Reply("submit", 400, 0, "", FALSE) /\ UNCHANGED reqs
     ELSE LET found == FindActiveSurvey(sid, t)
          IN IF found = {}
             THEN reply' = Reply("submit", 404, 0, "", FALSE) /\ UNCHANGED reqs
             ELSE IF surveyCollection[sid].settings.requireAuthentication /\ ~hasUser
             THEN reply' = Reply("submit", 401, sid, "", FALSE) /\ UNCHANGED reqs
             ELSE /\ reqs' = [reqs EXCEPT ![r] =
                       [NoReq EXCEPT !.pc = "submit_found", !.tenant = t, !.survey = sid,
                                     !.settings =
                                       [maxResponses |->
                                          Num(surveyCollection[sid].settings.maxResponses),
                                        requireAuthentication |->
                                          surveyCollection[sid].settings.requireAuthentication]]]
                  /\ UNCHANGED reply
  /\ UNCHANGED <<surveyCollection, responseCollection>>
  /\ surveyFrame

\* submit from the lookup: the count against settings.maxResponses of the
\* survey as it was read
SubmitCount(r) ==
  /\ reqs[r].pc = "submit_found"
  /\ LET responseCount == CountResponses(reqs[r].survey, reqs[r].tenant)
     IN IF responseCount >= reqs[r].settings.maxResponses.v
        THEN /\ reply' = Reply("submit", 403, reqs[r].survey, "", FALSE)
             /\ reqs' = [reqs EXCEPT ![r] = NoReq]
        ELSE /\ reqs' = [reqs EXCEPT ![r].pc = "submit_counted"]
             /\ UNCHANGED reply
  /\ UNCHANGED <<surveyCollection, responseCollection>>
  /\ surveyFrame

\* submit from the count: await surveyResponse.save()
SubmitSave(r) ==
  /\ reqs[r].pc = "submit_counted"
  /\ responseCollection' =
       Append(responseCollection,
              [tenantId |-> reqs[r].tenant, surveyId |-> reqs[r].survey,
               status |-> "completed"])
  /\ reqs' = [reqs EXCEPT ![r].pc = "submit_saved"]
  /\ UNCHANGED <<surveyCollection, reply>>
  /\ surveyFrame

\* updateSurveyAnalytics up to the update: the responses of the survey are
\* read and counted
updateSurveyAnalyticsFind(r) ==
  /\ reqs[r].pc = "submit_saved"
  /\ reqs' = [reqs EXCEPT ![r].pc = "submit_recounted",
                          ![r].counted = Cardinality(FindResponses(reqs[r].survey))]
  /\ UNCHANGED <<surveyCollection, responseCollection, reply>>
  /\ surveyFrame

\* updateSurveyAnalytics from the read: Survey.findByIdAndUpdate writes the
\* count that was read; then submit replies 201
updateSurveyAnalyticsUpdate(r) ==
  /\ reqs[r].pc = "submit_recounted"
  /\ surveyCollection' = [surveyCollection EXCEPT
         ![reqs[r].survey].analytics.totalResponses = reqs[r].counted]
  /\ reply' = Reply("submit", 201, reqs[r].survey, "", FALSE)
  /\ reqs' = [reqs EXCEPT ![r] = NoReq]
  /\ UNCHANGED responseCollection
  /\ surveyFrame

NextSurveys ==
  \/ \E r \in ReqIds, u \in Users, t \in Tenants, valid \in BOOLEAN,
        settings \in BodySettings : CreateSurveyCount(r, u, t, valid, settings)
  \/ \E r \in ReqIds : CreateSurveySave(r)

SpecSurveys == Init /\ [][NextSurveys]_vars

\* the submissions start with three surveys stored: two of tenant tA, one of
\* them with a limit of one response, and one of tenant tB that requires
\* authentication
InitResponses ==
  /\ conversations = <<>>
  /\ emotionAnalytics = <<>>
  /\ convAnalytics = <<>>
  /\ reqs = [r \in ReqIds |-> NoReq]
  /\ reply = NoReply
  /\ lastRead = NoRead
  /\ llmIn = NoOutcome
  /\ llmOut = NoOutcome
  /\ userCollection = <<>>
  /\ surveyCollection =
       <<NewSurvey("tA", "u1", [maxResponses |-> Undef, requireAuthentication |-> FALSE]),
         NewSurvey("tA", "u1", [maxResponses |-> Num(1), requireAuthentication |-> FALSE]),
         NewSurvey("tB", "u2", [maxResponses |-> Undef, requireAuthentication |-> TRUE])>>
  /\ responseCollection = <<>>

NextResponses ==
  \/ \E r \in ReqIds, t \in Tenants, sid \in SurveyIds, valid \in BOOLEAN,
        hasUser \in BOOLEAN : SubmitFind(r, t, sid, valid, hasUser)
  \/ \E r \in ReqIds : SubmitCount(r)
  \/ \E r \in ReqIds : SubmitSave(r)
  \/ \E r \in ReqIds : updateSurveyAnalyticsFind(r)
  \/ \E r \in ReqIds : updateSurveyAnalyticsUpdate(r)

SpecResponses == InitResponses /\ [][NextResponses]_vars

-----------------------------------------------------------------------------
(* Properties *)

\* C1: respond never appends a question entry to a conversation whose stored
\* status is completed, whatever other requests run beside it.
RespondNeverAppendsAfterCompleted ==
  [][\A i \in 1..Len(conversations) :
        conversations[i].status = "completed" =>
          conversations'[i].questions = conversations[i].questions]_vars

\* C2: there is at most one ConversationAnalytics record per conversationId.
OneAnalyticsPerConversation ==
  \A i, j \in 1..Len(convAnalytics) :
    convAnalytics[i].conversationId = convAnalytics[j].conversationId => i = j

\* C3: there is at most one EmotionAnalytics snapshot per conversation, also when
\* complete requests for the conversation overlap.
OneSnapshotPerConversation ==
  \A i, j \in 1..Len(emotionAnalytics) :
    emotionAnalytics[i].conversationId = emotionAnalytics[j].conversationId => i = j

AnalyticsRoutes ==
  {"dashboard", "conversations", "user", "trends", "topics", "recommendations"}

\* C4: every record an analytics read route (dashboard, conversations, per-user,
\* trends, topics, recommendations) fetches for a request under tenant A is a
\* record of tenant A.
TenantReadsOnlyOwnRecords ==
  lastRead.route \in AnalyticsRoutes =>
    \A i \in lastRead.ids : convAnalytics[i].tenantId = lastRead.tenant

\* a read under tenant tA has returned records while the store holds a record of
\* tenant tB inside every window
TenantReadBesideForeignRecord ==
  /\ lastRead.route = "topics"
  /\ lastRead.tenant = "tA"
  /\ lastRead.ids # {}
  /\ \E i \in 1..Len(convAnalytics) :
        convAnalytics[i].tenantId = "tB" /\ i \notin lastRead.ids

\* C5: the tenantId of a ConversationAnalytics record is the tenantId of the
\* conversation it refers to: analyze under tenant A of a conversation of tenant
\* B creates no record.
RecordTenantIsConversationTenant ==
  \A i \in 1..Len(convAnalytics) :
    convAnalytics[i].tenantId = conversations[convAnalytics[i].conversationId].tenantId

\* C6: what the pattern routes return is computed from the conversations of the
\* request's tenant only, also when an admin passes the id of a user of another
\* tenant.
PatternsOfRequestTenantOnly ==
  lastRead.route \in {"patterns", "emotion_user"} /\ lastRead.status = 200 =>
    lastRead.patterns =
      trackEmotionalPatterns(OfTenant(conversations, lastRead.tenant), lastRead.userId,
                             lastRead.start)

\* C7: for every outcome of the external call, analyzeEmotion returns intensity
\* within [1,10], confidence within [0,1] and sentiment within [-1,1], and
\* analyzeOverallEmotion returns its five scores within [1,10].
ScoresWithinRanges ==
  /\ llmIn.fn = "analyzeEmotion" /\ llmOut # NoOutcome =>
        /\ InRange(llmOut.intensity, 1, 10)
        /\ InRange(llmOut.confidence, 0, 10)
        /\ InRange(llmOut.sentiment, -10, 10)
  /\ llmIn.fn = "analyzeOverallEmotion" /\ llmOut # NoOutcome =>
        /\ InRange(llmOut.averageIntensity, 1, 10)
        /\ InRange(llmOut.wellBeingScore, 1, 10)
        /\ InRange(llmOut.stressLevel, 1, 10)
        /\ InRange(llmOut.energyLevel, 1, 10)
        /\ InRange(llmOut.satisfaction, 1, 10)

\* the emotionAnalysis of a stored entry has every field, within its range
CompleteEmotionAnalysis(ea) ==
  /\ ea.primaryEmotion # ""
  /\ InRange(ea.intensity, 1, 10)
  /\ InRange(ea.confidence, 0, 10)
  /\ InRange(ea.sentiment, -10, 10)

CompleteOverallEmotion(oe) ==
  /\ oe.dominantEmotion # "" /\ oe.emotionalState # ""
  /\ InRange(oe.averageIntensity, 1, 10) /\ InRange(oe.wellBeingScore, 1, 10)
  /\ InRange(oe.stressLevel, 1, 10) /\ InRange(oe.energyLevel, 1, 10)
  /\ InRange(oe.satisfaction, 1, 10)

\* C8: when the external call throws, gives unparsable text or gives an object
\* with fields missing, the service functions return complete values, and
\* respond and complete do not answer with an error because of the call (an
\* error answered because the store refused a write is not of the call).
AbsorbedOutcomesNeverFail ==
  /\ reply.route \in {"respond", "complete"} /\ reply.absorbed /\ ~reply.storeFailed =>
       reply.status = 200
  /\ \A i \in 1..Len(conversations) :
        /\ \A j \in 1..Len(conversations[i].questions) :
              CompleteEmotionAnalysis(conversations[i].questions[j].emotionAnalysis)
        /\ conversations[i].status = "completed" =>
              CompleteOverallEmotion(conversations[i].overallEmotion)

\* respond has answered 200 behind a failed call and stored the default analysis,
\* and the conversation was completed behind unparsable text
FailedCallAbsorbed ==
  /\ reply.route = "respond" /\ reply.status = 200 /\ reply.ext = "error"
  /\ \E i \in 1..Len(conversations) :
        /\ conversations[i].status = "completed"
        /\ conversations[i].overallEmotion = analyzeOverallEmotionDefault
        /\ \E j \in 1..Len(conversations[i].questions) :
              conversations[i].questions[j].emotionAnalysis = analyzeEmotionDefault

\* C9: analyzeConversation absorbs every outcome of its two text-generation
\* calls, JSON null and objects of the wrong shape included: for a conversation
\* that exists it persists a record and the route answers without an error.
AnalyzeAbsorbsEveryOutcome ==
  reply.route = "analyze" /\ reply.conv # 0 =>
    /\ reply.status = 200
    /\ \E i \in 1..Len(convAnalytics) : convAnalytics[i].conversationId = reply.conv

\* C10: the predictedOutcomes a stored record holds are within their ranges:
\* nextWeekMood, nextWeekStress and nextWeekEnergy within [1,10], confidence
\* within [0,1].
PredictedOutcomesWithinRanges ==
  \A i \in 1..Len(convAnalytics) :
    LET p == convAnalytics[i].predictedOutcomes
    IN /\ MissingOr(p.nextWeekMood, 1, 10)
       /\ MissingOr(p.nextWeekStress, 1, 10)
       /\ MissingOr(p.nextWeekEnergy, 1, 10)
       /\ MissingOr(p.confidence, 0, 10)

\* C11: analyzeConversation writes at most once, after the whole record has
\* been computed: a run either persists one full record and answers 200, or
\* fails and leaves the stored records as they were.
OneFullWriteOrNone ==
  [][\/ convAnalytics' = convAnalytics /\ reply'.status = 500
     \/ /\ Len(convAnalytics') = Len(convAnalytics) + 1
        /\ SubSeq(convAnalytics', 1, Len(convAnalytics)) = convAnalytics
        /\ ValidConversationAnalytics(convAnalytics'[Len(convAnalytics')])
        /\ convAnalytics'[Len(convAnalytics')].conversationId = reply'.conv
        /\ reply'.status = 200]_vars

\* an analyze of an existing conversation has failed beside a stored record
AnalyzeFailedBesideRecord ==
  /\ reply.route = "analyze" /\ reply.status = 500 /\ reply.conv # 0
  /\ Len(convAnalytics) = 1

\* the frequency the keyword count gives topic in the user turns
TopicFrequency(conversationData, topic) == SumMatches(UserMessages(conversationData), KeywordsOf(topic))

\* C12: for a conversation with stressLevel > 7, wellBeingScore < 4 and more
\* than 3 occurrences of topic work in its user turns, the recommendations are
\* exactly emotional_support/high, personal_development/high and
\* workplace_improvement/medium, in that order.
ThreeRulesThreeRecommendations ==
  /\ llmIn.fn = "generateRecommendations" /\ llmOut # NoOutcome
  /\ JsGt(llmIn.o.overallEmotion.stressLevel, 7)
  /\ JsLt(llmIn.o.overallEmotion.wellBeingScore, 4)
  /\ TopicFrequency(llmIn.o, "work") > 3
  => llmOut.v = << [type |-> "emotional_support", priority |-> "high"],
                  [type |-> "personal_development", priority |-> "high"],
                  [type |-> "workplace_improvement", priority |-> "medium"] >>

\* C13: the topics block of analyzeConversation counts, per topic of the
\* keyword dictionary, one per keyword found as a case-insensitive substring in
\* each user turn, sorted by frequency descending: a user turn "deadline
\* meeting stress" gives work and stress a positive count.
TopicsBlockCountsKeywords ==
  llmIn.fn = "analyzeTopics" /\ llmOut # NoOutcome =>
    llmOut.v = analyzeTopicsOfConversation(llmIn.o)

\* C14: for a user with exactly two conversations in the window whose
\* well-being scores are [a, b] oldest first with b - a > 0.5, the
\* trendDirection of the historical analysis is improving.
TwoRisingConversationsImprove ==
  llmIn.fn = "analyzeHistoricalContext" /\ llmOut # NoOutcome =>
    LET recent == RecentConversations(llmIn.o.store, "u1", "tA", llmIn.o.start)
    IN /\ Len(recent) = 2
       /\ recent[1].overallEmotion.wellBeingScore.k = "num"
       /\ recent[2].overallEmotion.wellBeingScore.k = "num"
       /\ recent[1].overallEmotion.wellBeingScore.v > recent[2].overallEmotion.wellBeingScore.v
       => llmOut.v.trendDirection = "improving"

\* C15: for every tenant and window, rolling or with start and end, that
\* matches no analytics record, the dashboard answers with the all-zero
\* overview and empty emotionalTrends, topTopics, recommendations and timeRange
\* lists, never with null or an error.
EmptyWindowGivesEmptyRollup ==
  lastRead.route = "dashboard" /\ lastRead.ids = {} =>
    /\ lastRead.status = 200
    /\ lastRead.data.overview =
         [totalConversations |-> 0, avgWellBeing |-> Num(0), avgStress |-> Num(0),
          avgSatisfaction |-> Num(0), avgEngagement |-> Num(0)]
    /\ lastRead.data.emotionalTrends = <<>>
    /\ lastRead.data.topTopics = <<>>
    /\ lastRead.data.recommendations = <<>>
    /\ lastRead.data.timeRange = <<>>

\* the dashboard has answered for a window without records of the tenant while
\* the store holds a record of the tenant outside the window
EmptyWindowBesideRecords ==
  /\ lastRead.route = "dashboard" /\ lastRead.ids = {}
  /\ \E i \in 1..Len(convAnalytics) : convAnalytics[i].tenantId = lastRead.tenant

SomeTenantAnswers(store, req) ==
  \E id \in TenantIds :
    /\ store[id].present
    /\ \/ req.header = id
       \/ store[id].isActive /\ req.subdomain = Subdomain(id)
       \/ store[id].isActive /\ req.host = Domain(id)
       \/ store[id].isActive /\ req.env = "development" /\ id = "tL"

OnlyTenantUsersPass ==
  llmIn.fn = "authenticateToken" /\ llmOut # NoOutcome =>
    LET out == llmOut.v
        users == llmIn.o.users
        token == llmIn.o.token
        named == token.userId \in Users /\ users[token.userId].present
    IN /\ out.next => /\ out.status = 0 /\ token.kind = "valid" /\ named
                      /\ out.user = token.userId
                      /\ users[out.user].isActive
                      /\ users[out.user].tenantId = llmIn.o.tenant
       /\ token.kind \in {"none", "invalid", "expired"} => out.status = 401 /\ ~out.next
       /\ (token.kind = "valid" /\ named /\ users[token.userId].tenantId # llmIn.o.tenant)
            => out.status = 401 /\ ~out.next /\ out.user = ""

\* a valid credential of an active user of the other tenant has been refused
OtherTenantCredentialRefused ==
  /\ llmIn.fn = "authenticateToken" /\ llmOut # NoOutcome
  /\ llmIn.o.token = [kind |-> "valid", userId |-> "u1"]
  /\ llmIn.o.users["u1"] = [present |-> TRUE, tenantId |-> "tA", isActive |-> TRUE]
  /\ llmIn.o.tenant = "tB"
  /\ llmOut.v.status = 401

\* no conversation of session sid is stored for user u under tenant t: it is
\* absent, or of another user, or of another tenant
NotOwn(sid, t, u) ==
  \A i \in 1..Len(conversations) :
    conversations[i].sessionId = sid =>
      conversations[i].userId # u \/ conversations[i].tenantId # t

\* a step in which a respond, complete or get call arrives for a session that is
\* not the caller's; wellFormed: only respond calls whose body passes validation
CallOnNotOwn(wellFormed) ==
  \E u \in Users, t \in Tenants, sid \in SessionIds :
    /\ NotOwn(sid, t, u)
    /\ \/ \E r \in ReqIds, qid \in QuestionIds, text \in UserResponses :
            (wellFormed => text # "") /\ RespondFind(r, u, t, sid, qid, text)
       \/ \E r \in ReqIds : CompleteFind(r, u, t, sid)
       \/ GetConversation(u, t, sid)

StoresUnchanged ==
  /\ conversations' = conversations
  /\ emotionAnalytics' = emotionAnalytics
  /\ convAnalytics' = convAnalytics

\* C19 as stated: a respond, complete or get call on a sessionId whose
\* conversation is absent, of another user or of another tenant returns 404 and
\* leaves every stored conversation and analytics record unchanged.
CallOnNotOwnGets404 ==
  [][CallOnNotOwn(FALSE) => reply'.status = 404 /\ reqs' = reqs /\ StoresUnchanged]_vars

\* C19 amended: a complete or get call, and a respond call whose body passes
\* validation, on a sessionId whose conversation is absent, of another user or
\* of another tenant returns 404, starts no handler work and leaves every stored
\* conversation and analytics record unchanged; a respond call whose body fails
\* validation returns 400 and leaves them unchanged as well.
WellFormedCallOnNotOwnGets404 ==
  [][/\ CallOnNotOwn(TRUE) => reply'.status = 404 /\ reqs' = reqs /\ StoresUnchanged
     /\ CallOnNotOwn(FALSE) => reply'.status \in {400, 404} /\ reqs' = reqs
                                 /\ StoresUnchanged]_vars

\* a call on the stored conversation of the other user has been answered 404
OtherUsersConversationRefused ==
  /\ reply.status = 404
  /\ reply.route \in {"respond", "complete", "get"}
  /\ Len(conversations) > 0
  /\ \A i \in 1..Len(conversations) : conversations[i].status = "in_progress"

NoSharedPair(coll) ==
  \A i, j \in 1..Len(coll) :
    coll[i].tenantId = coll[j].tenantId /\ coll[i].email = coll[j].email => i = j

\* C20: after any sequence and interleaving of create-user requests no two User
\* records share the same (tenantId, email), and a create for a pair that is
\* already stored stores nothing.
PairsStayUnique ==
  [][/\ NoSharedPair(userCollection')
     /\ \A r \in ReqIds :
          reqs[r].pc = "create_save" /\ reqs'[r].pc = "idle"
            /\ FindUser(reqs[r].email, reqs[r].tenant) # {}
          => userCollection' = userCollection]_vars

\* two creates of the same pair ran side by side: the pair is stored once and
\* the later save was refused by the index
LaterSaveOfPairRefused ==
  /\ reply = Reply("createUser", 500, 0, "E11000", FALSE)
  /\ \E i \in 3..Len(userCollection) : userCollection[i].tenantId = "tA"
                                        /\ userCollection[i].email = "a@x.io"

\* the step is the return of a respond call on conversation i with status 200
RespondSucceeds(i) ==
  \E r \in ReqIds :
    /\ reqs[r].pc = "respond_await" /\ reqs[r].conv = i
    /\ reqs'[r].pc = "idle"
    /\ reply'.route = "respond" /\ reply'.status = 200

\* the question list of conversation i grows by one entry at its end
OneEntryAppended(i) ==
  LET old == conversations[i].questions
      new == conversations'[i].questions
  IN Len(new) = Len(old) + 1 /\ SubSeq(new, 1, Len(old)) = old

\* C21: a conversation is created in_progress with no questions, and while it
\* is in_progress every successful respond call, in any interleaving, appends
\* exactly one entry at the end of the stored list and leaves the earlier
\* entries as they are; no other step changes the list.
OneEntryPerRespond ==
  [][\A i \in 1..Len(conversations') :
       IF i > Len(conversations)
       THEN conversations'[i].status = "in_progress" /\ conversations'[i].questions = <<>>
       ELSE conversations[i].status = "in_progress" =>
              IF RespondSucceeds(i) THEN OneEntryAppended(i)
              ELSE conversations'[i].questions = conversations[i].questions]_vars

\* a respond call that loaded the conversation with no questions is still in
\* flight while another respond call has stored its entry
RespondBesideStoredEntry ==
  \E r \in ReqIds :
    /\ reqs[r].pc = "respond_await" /\ reqs[r].qlen = 0
    /\ conversations[reqs[r].conv].status = "in_progress"
    /\ Len(conversations[reqs[r].conv].questions) = 1

\* C22: a ConversationAnalytics record exists only for a conversation whose
\* status is completed; an analyze call on a conversation that is in_progress
\* or abandoned persists no record.
RecordsOnlyOfCompleted ==
  \A i \in 1..Len(convAnalytics) :
    conversations[convAnalytics[i].conversationId].status = "completed"

\* the conversations of the owner of conversation cid created before it, within
\* the window, newest first
PriorConversations(store, cid, start) ==
  Reverse(SelectSeq(store, LAMBDA c : /\ c.userId = store[cid].userId
                                      /\ c.tenantId = store[cid].tenantId
                                      /\ c.createdAt >= start
                                      /\ c.createdAt < store[cid].createdAt))

\* C23: the previousMood of the historical analysis of a conversation is the
\* well-being score of the same user's most recent conversation created before
\* it within the window, and 5 when there is none; it is never the analysed
\* conversation's own score.
PreviousMoodIsOfPriorConversation ==
  llmIn.fn = "analyzeHistoricalContext" /\ llmOut # NoOutcome /\ llmIn.o.cid > 0
  /\ llmIn.o.store[llmIn.o.cid].userId = "u1" =>
    LET prior == PriorConversations(llmIn.o.store, llmIn.o.cid, llmIn.o.start)
    IN llmOut.v.previousMood =
         IF prior = <<>> THEN Num(5)
         ELSE OrElse(prior[1].overallEmotion.wellBeingScore, Num(5))

\* the well-being score of a conversation, a missing one counting as 5
ScoreOr5(c) ==
  IF c.overallEmotion.wellBeingScore.k = "num" THEN c.overallEmotion.wellBeingScore.v ELSE 5

RECURSIVE SumScores(_)
SumScores(cs) == IF cs = <<>> THEN 0 ELSE ScoreOr5(Head(cs)) + SumScores(Tail(cs))

\* six times the mean score of a list of one, two or three conversations
SixMeans(cs) == SumScores(cs) * (6 \div Len(cs))

\* six times (mean of the three most recent - mean of the next three older) of
\* a list of at least four conversations, newest first
SixMeanDifference(cs) ==
  SixMeans(SubSeq(cs, 1, 3)) - SixMeans(SubSeq(cs, 4, IF Len(cs) < 6 THEN Len(cs) ELSE 6))

\* C24: for a list of conversations sorted newest first, calculateTrendDirection
\* returns improving iff the mean well-being of the three most recent exceeds
\* that of the next three older by more than 0.5, declining iff it is lower by
\* more than 0.5, and stable otherwise (also when there is no older
\* conversation), a missing score counting as 5.
TrendComparesThreeWithNextThree ==
  llmIn.fn = "calculateTrendDirection" /\ llmOut # NoOutcome =>
    LET cs == llmIn.o
        hasOlder == Len(cs) >= 4
    IN /\ llmOut.v = "improving" <=> (hasOlder /\ SixMeanDifference(cs) > 3)
       /\ llmOut.v = "declining" <=> (hasOlder /\ SixMeanDifference(cs) < -3)
       /\ llmOut.v \in {"improving", "declining", "stable"}

\* three recent conversations of mean 5 against two older of mean 4.5: the
\* difference is exactly 0.5 and the direction is stable
MarginOfHalfIsStable ==
  /\ llmIn.fn = "calculateTrendDirection" /\ llmOut # NoOutcome
  /\ Len(llmIn.o) = 5
  /\ SixMeanDifference(llmIn.o) = 3
  /\ llmOut.v = "stable"

\* C25: the timeOfDay, dayOfWeek and season of a record's contextualAnalysis are
\* those of the conversation's creation time, not of the time the analysis
\* runs: night for hour < 6, morning for hour < 12, afternoon for hour < 18 and
\* evening otherwise.
ContextIsOfCreationTime ==
  llmIn.fn = "analyzeContextualFactors" /\ llmOut # NoOutcome =>
    LET created == llmIn.o.conversation.createdAt
    IN /\ llmOut.v.timeOfDay = (CASE created.hour < 6 -> "night"
                                   [] created.hour \in 6..11 -> "morning"
                                   [] created.hour \in 12..17 -> "afternoon"
                                   [] OTHER -> "evening")
       /\ llmOut.v.dayOfWeek = getDayOfWeek(created)
       /\ llmOut.v.season = getSeason(created)

\* the value scored for response i: its number when present and not the
\* default d, otherwise nothing
Scored(x, d) == x.k = "num" /\ x.v # d

\* the sum of f over the set of indices S
RECURSIVE SumOver(_, _)
SumOver(f, S) ==
  IF S = {} THEN 0 ELSE LET i == CHOOSE i \in S : TRUE IN f[i].v + SumOver(f, S \ {i})

\* m is the mean of f over S, d when S is empty
IsMeanOver(m, f, S, d) ==
  IF S = {} THEN m = Num(d)
  ELSE m.k = "ratio" /\ m.num * Cardinality(S) = SumOver(f, S) * m.den /\ m.den > 0

\* C26: calculateMetrics returns as sentimentScore the mean sentiment over
\* exactly the user responses whose sentiment is not 0 (0 when there is none)
\* and as emotionalIntensity the mean intensity over exactly those whose
\* intensity is not 5 (5 when there is none); a missing value counts as the
\* default and is left out.
MeansLeaveOutDefaults ==
  llmIn.fn = "calculateMetrics" /\ llmOut # NoOutcome =>
    LET msgs == UserMessages(llmIn.o)
        sentiment == [i \in 1..Len(msgs) |-> msgs[i].emotionAnalysis.sentiment]
        intensity == [i \in 1..Len(msgs) |-> msgs[i].emotionAnalysis.intensity]
    IN /\ IsMeanOver(llmOut.v.sentimentScore, sentiment,
                     { i \in 1..Len(msgs) : Scored(sentiment[i], 0) }, 0)
       /\ IsMeanOver(llmOut.v.emotionalIntensity, intensity,
                     { i \in 1..Len(msgs) : Scored(intensity[i], 5) }, 5)

\* two responses, one scored and one with the default sentiment or none: the
\* mean is the scored value alone
MeanOfOneScoredResponse ==
  /\ llmIn.fn = "calculateMetrics" /\ llmOut # NoOutcome
  /\ Len(UserMessages(llmIn.o)) = 2
  /\ llmOut.v.sentimentScore = Ratio(5, 1)
  /\ llmOut.v.emotionalIntensity = Ratio(8, 1)

\* C27: initializeActionTracking records one recommendationsGiven entry per
\* recommendation, in the same order and with the same type, description and
\* priority, and followUpRequired is true exactly when some recommendation is
\* of high priority, so false for an empty list.
TrackingMirrorsRecommendations ==
  llmIn.fn = "initializeActionTracking" /\ llmOut # NoOutcome =>
    LET recs == llmIn.o.recommendations
        given == llmOut.v.recommendationsGiven
    IN /\ Len(given) = Len(recs)
       /\ \A i \in 1..Len(recs) :
            /\ given[i].type = recs[i].type
            /\ given[i].description = recs[i].description
            /\ given[i].priority = recs[i].priority
       /\ llmOut.v.followUpRequired =
            ({ i \in 1..Len(recs) : recs[i].priority = "high" } # {})
       /\ (recs = <<>> => llmOut.v.followUpRequired = FALSE)

\* a medium-priority recommendation followed by a high-priority one is tracked
\* in that order and asks for a follow-up
MediumThenHighTracked ==
  /\ llmIn.fn = "initializeActionTracking" /\ llmOut # NoOutcome
  /\ Len(llmIn.o.recommendations) = 2
  /\ llmOut.v.recommendationsGiven[1].type = "workplace_improvement"
  /\ llmOut.v.recommendationsGiven[2].priority = "high"
  /\ llmOut.v.followUpRequired

\* C28: once every complete request has returned, each conversation whose
\* status is completed has an EmotionAnalytics record referencing it, also
\* when the save of the record is refused: completion leaves no conversation
\* marked completed without its snapshot.
CompletedHasSnapshot ==
  (\A r \in DOMAIN reqs : reqs[r].pc \notin {"complete_await", "complete_saved"}) =>
    \A c \in 1..Len(conversations) :
      conversations[c].status = "completed" =>
        \E a \in 1..Len(emotionAnalytics) : emotionAnalytics[a].conversationId = c

\* C29: in any interleaving of create-survey requests the number of stored
\* surveys of a tenant never exceeds the tenant's settings.limits.maxSurveys.
SurveysWithinLimit ==
  \A t \in Tenants : CountSurveys(t) <= maxSurveys(t)

\* C30: once all response submissions have finished, analytics.totalResponses
\* of every survey equals the number of SurveyResponse records stored for it.
TotalResponsesIsStoredCount ==
  Submitting = {} =>
    \A sid \in 1..Len(surveyCollection) :
      surveyCollection[sid].analytics.totalResponses = Cardinality(FindResponses(sid))

====
